---- MODULE Spec2Model ----
(***************************************************************************)
(* Filter-and-aggregation pipeline of the Paris 2024 Olympics dashboard.   *)
(*                                                                         *)
(* A DataFrame is a record [cols, rows]: cols is the sequence of column    *)
(* labels and every row is a tuple with one cell per label, in the same    *)
(* order.  A missing string cell is NaN, a missing number is NaNNum.       *)
(* String methods (strip, title, lower, upper, contains) are tabulated     *)
(* over the strings the inputs are drawn from.                             *)
(***************************************************************************)
EXTENDS Integers, Sequences, FiniteSets, TLC

VARIABLES
    pc,                     \* position of the render cycle / call under way
    df,                     \* apply_filters: the table passed in
    filters,                \* the selection (dict of create_sidebar_filters)
    filtered_df,            \* apply_filters(df, filters)
    refiltered_df,          \* apply_filters(filtered_df, filters)
    raw_df,                 \* normalize_medal_columns: the table passed in
    normalized_df,          \* normalize_medal_columns(raw_df)
    renormalized_df,        \* normalize_medal_columns(normalized_df)
    medals_total_df,        \* Overview: medals_total after load_all_overview_data
    medallists_df,          \* Overview: medallists after load_all_overview_data
    filtered_medallists,    \* Overview: apply_filters(medallists_df, filters)
    medal_counts,           \* Overview: groupby(country, medal_type).size()
    filtered_medals_total,  \* Overview: the tally that is displayed
    medals_df,              \* Global Analysis: medals after load_global_data
    medals_by_country,      \* Global Analysis: the per-country tally
    raw_widgets,            \* create_sidebar_filters: what the widgets return
    called,                 \* empty-input calls: the function called
    returned,               \* empty-input calls: what it returned
    files,                  \* data_loader: what is on disk for each file read
    messages,               \* data_loader: the st.warning / st.error calls made
    all_results,            \* load_all_sport_results: sport name -> result table
    kpi_data,               \* Overview: the values of the KPI cards
    cache,                  \* st.cache_data: call -> the value stored for it
    session_state           \* st.session_state of the browser session

vars == <<pc, df, filters, filtered_df, refiltered_df, raw_df, normalized_df,
          renormalized_df, medals_total_df, medallists_df, filtered_medallists,
          medal_counts, filtered_medals_total, medals_df, medals_by_country,
          raw_widgets, called, returned, files, messages, all_results, kpi_data,
          cache, session_state>>

-----------------------------------------------------------------------------
(* Bounds of the model *)

MaxRows == 2
MaxMedallists == 3
MaxTally == 2
MaxActive == 2

-----------------------------------------------------------------------------
(* pandas values *)

NaN == "nan"
NaNNum == 0 - 1
NoCol == "<None>"
Raised == [cols |-> <<"<exception>">>, rows |-> <<>>]
EmptyFrame == [cols |-> <<>>, rows |-> <<>>]

HasCol(d, c) == \E i \in 1..Len(d.cols) : d.cols[i] = c

ColIdx(d, c) ==
    CHOOSE i \in 1..Len(d.cols) :
        d.cols[i] = c /\ \A j \in 1..(i - 1) : d.cols[j] # c

Cell(d, r, c) == r[ColIdx(d, c)]

empty(d) == Len(d.rows) = 0 \/ Len(d.cols) = 0

RowSet(d) == {d.rows[i] : i \in 1..Len(d.rows)}

RECURSIVE FirstCol(_, _)
FirstCol(d, possible_names) ==
    IF possible_names = <<>> THEN NoCol
    ELSE IF HasCol(d, Head(possible_names)) THEN Head(possible_names)
    ELSE FirstCol(d, Tail(possible_names))

RECURSIVE SumSeq(_)
SumSeq(s) == IF s = <<>> THEN 0 ELSE Head(s) + SumSeq(Tail(s))

SeqsUpTo(S, n) == UNION {[1..k -> S] : k \in 0..n}

-----------------------------------------------------------------------------
(* String methods, tabulated *)

\* str.strip().upper() of a country code
StripUpper(s) ==
    CASE s = "fra"   -> "FRA"
      [] s = " FRA " -> "FRA"
      [] s = "ken"   -> "KEN"
      [] OTHER       -> s

\* str.strip().title() of a gender cell
StripTitle(s) ==
    CASE s = "male"     -> "Male"
      [] s = "MALE"     -> "Male"
      [] s = " Male "   -> "Male"
      [] s = " male "   -> "Male"
      [] s = " female " -> "Female"
      [] s = "female"   -> "Female"
      [] s = "FEMALE"   -> "Female"
      [] s = " Female " -> "Female"
      [] OTHER          -> s

\* str.contains(' Medal') of a medal_type cell
ContainsMedal(s) == s \in {"Gold Medal", "Silver Medal", "Bronze Medal"}

\* f"{m} Medal"
WithSuffix(m) == m \o " Medal"

-----------------------------------------------------------------------------
(* config.py *)

MEDAL_TYPES == {"Gold", "Silver", "Bronze"}

\* CONTINENT_MAP.get(code, 'Unknown'); of the two entries for RSA the later
\* one of the dict literal stands.
CONTINENT_MAP_get(code) ==
    CASE code = "FRA" -> "Europe"
      [] code = "GBR" -> "Europe"
      [] code = "KEN" -> "Africa"
      [] code = "RSA" -> "Africa"
      [] code = "USA" -> "North America"
      [] OTHER        -> "Unknown"

-----------------------------------------------------------------------------
(* utils/continent_mapper.py *)

\* a code absent from the table is given no continent
get_continent_no_default(country_code) ==
    IF country_code = NaN THEN "Unknown"
    ELSE IF CONTINENT_MAP_get(StripUpper(country_code)) = "Unknown" THEN NaN
    ELSE CONTINENT_MAP_get(StripUpper(country_code))

get_continent(country_code) ==
    IF country_code = NaN THEN "Unknown"
    ELSE CONTINENT_MAP_get(StripUpper(country_code))

get_all_continents == {"Africa", "Europe", "North America"}

add_continent_column(d, country_column) ==
    IF empty(d) THEN d
    ELSE IF HasCol(d, "continent") THEN d
    ELSE
      LET actual_country_col ==
              IF HasCol(d, country_column) THEN country_column
              ELSE FirstCol(d, <<"country_code", "code", "noc", "NOC", "Country Code">>)
      IN  IF actual_country_col = NoCol THEN d
          ELSE [cols |-> Append(d.cols, "continent"),
                rows |-> [i \in 1..Len(d.rows) |->
                            Append(d.rows[i],
                                   get_continent(Cell(d, d.rows[i], actual_country_col)))]]

\* without the early return on an empty table
filter_by_continent_no_empty_check(d, continent_name, country_column) ==
    LET c == IF ~HasCol(d, "continent") THEN add_continent_column(d, country_column) ELSE d
    IN  IF ~HasCol(c, "continent") THEN Raised
        ELSE [c EXCEPT !.rows =
                 SelectSeq(c.rows, LAMBDA r : Cell(c, r, "continent") \in continent_name)]

filter_by_continent(d, continent_name, country_column) ==
    IF empty(d) THEN d
    ELSE
      LET c == IF ~HasCol(d, "continent") THEN add_continent_column(d, country_column) ELSE d
      IN  IF ~HasCol(c, "continent") THEN Raised
          ELSE [c EXCEPT !.rows =
                   SelectSeq(c.rows, LAMBDA r : Cell(c, r, "continent") \in continent_name)]

-----------------------------------------------------------------------------
(* utils/filters.py: column detection *)

get_country_column(d) ==
    FirstCol(d, <<"country", "country_code", "code", "noc", "NOC", "Country">>)

get_sport_column(d) == FirstCol(d, <<"sport", "Sport", "discipline", "Discipline">>)

get_medal_column(d) == FirstCol(d, <<"medal_type", "medal", "Medal", "medal_code">>)

get_gender_column(d) == FirstCol(d, <<"gender", "Gender", "sex", "Sex">>)

(* utils/filters.py: the steps of apply_filters, in the order of the code *)

NoAgeRange == <<>>

EnsureContinent(d, f) ==
    IF "All" \notin f.continents /\ ~HasCol(d, "continent")
    THEN add_continent_column(d, "country_code")
    ELSE d

FilterContinent(d, f) ==
    IF "All" \notin f.continents /\ HasCol(d, "continent")
    THEN [d EXCEPT !.rows =
             SelectSeq(d.rows, LAMBDA r : Cell(d, r, "continent") \in f.continents)]
    ELSE d

\* the country filter matching no row when the table has no country column
FilterCountry_unresolved_empty(d, f) ==
    LET country_col == get_country_column(d)
    IN  IF "All" \notin f.countries
        THEN [d EXCEPT !.rows =
                 SelectSeq(d.rows, LAMBDA r : /\ country_col # NoCol
                                              /\ Cell(d, r, country_col) \in f.countries)]
        ELSE d

\* the country filter without the test for "All"
FilterCountry_no_all(d, f) ==
    LET country_col == get_country_column(d)
    IN  IF country_col # NoCol
        THEN [d EXCEPT !.rows =
                 SelectSeq(d.rows, LAMBDA r : Cell(d, r, country_col) \in f.countries)]
        ELSE d

FilterCountry(d, f) ==
    LET country_col == get_country_column(d)
    IN  IF "All" \notin f.countries /\ country_col # NoCol
        THEN [d EXCEPT !.rows =
                 SelectSeq(d.rows, LAMBDA r : Cell(d, r, country_col) \in f.countries)]
        ELSE d

FilterSport(d, f) ==
    LET sport_col == get_sport_column(d)
    IN  IF "All" \notin f.sports /\ sport_col # NoCol
        THEN [d EXCEPT !.rows =
                 SelectSeq(d.rows, LAMBDA r : Cell(d, r, sport_col) \in f.sports)]
        ELSE d

\* sum(axis=1) of the selected medal columns of one row
SelectedSum(d, r, medal_cols) ==
    (IF "Gold" \in medal_cols THEN Cell(d, r, "Gold") ELSE 0)
    + (IF "Silver" \in medal_cols THEN Cell(d, r, "Silver") ELSE 0)
    + (IF "Bronze" \in medal_cols THEN Cell(d, r, "Bronze") ELSE 0)

FilterMedalAggregated(d, f) ==
    [d EXCEPT !.rows = SelectSeq(d.rows, LAMBDA r : SelectedSum(d, r, f.medal_types) > 0)]

FilterMedalRecords(d, f, medal_col) ==
    LET medal_types_with_suffix == {WithSuffix(m) : m \in f.medal_types}
        uses_suffix ==
            ~empty(d) /\ \E i \in 1..Len(d.rows) : ContainsMedal(Cell(d, d.rows[i], medal_col))
    IN  IF uses_suffix
        THEN [d EXCEPT !.rows =
                 SelectSeq(d.rows, LAMBDA r : Cell(d, r, medal_col) \in medal_types_with_suffix)]
        ELSE [d EXCEPT !.rows =
                 SelectSeq(d.rows, LAMBDA r : Cell(d, r, medal_col) \in f.medal_types)]

FilterMedal(d, f) ==
    LET medal_col == get_medal_column(d)
    IN  IF Cardinality(f.medal_types) > 0
        THEN IF HasCol(d, "Gold") /\ HasCol(d, "Silver") /\ HasCol(d, "Bronze")
             THEN FilterMedalAggregated(d, f)
             ELSE IF medal_col # NoCol THEN FilterMedalRecords(d, f, medal_col)
             ELSE d
        ELSE d

FilterGender(d, f) ==
    LET gender_col == get_gender_column(d)
    IN  IF f.gender # "All" /\ gender_col # NoCol
        THEN [d EXCEPT !.rows =
                 SelectSeq(d.rows, LAMBDA r : StripTitle(Cell(d, r, gender_col)) = f.gender)]
        ELSE d

\* the range test passing a missing age
AgeInRange_or_missing(age, age_range) ==
    age = NaNNum \/ (age >= age_range[1] /\ age <= age_range[2])

\* the range without its two ends
AgeInRange_exclusive(age, age_range) ==
    age # NaNNum /\ age > age_range[1] /\ age < age_range[2]

AgeInRange(age, age_range) ==
    age # NaNNum /\ age >= age_range[1] /\ age <= age_range[2]

FilterAge(d, f) ==
    IF f.age_range # NoAgeRange /\ HasCol(d, "age")
    THEN [d EXCEPT !.rows = SelectSeq(d.rows, LAMBDA r : AgeInRange(Cell(d, r, "age"), f.age_range))]
    ELSE d

\* apply_filters with `return pd.DataFrame()` for an empty table, the way
\* calculate_medal_counts answers an empty table
apply_filters_fresh_empty(d, f) ==
    IF empty(d) THEN EmptyFrame
    ELSE FilterAge(FilterGender(FilterMedal(FilterSport(FilterCountry(
             FilterContinent(EnsureContinent(d, f), f), f), f), f), f), f)

apply_filters(d, f) ==
    IF empty(d) THEN d
    ELSE FilterAge(FilterGender(FilterMedal(FilterSport(FilterCountry(
             FilterContinent(EnsureContinent(d, f), f), f), f), f), f), f)

-----------------------------------------------------------------------------
(* utils/data_processor.py *)

\* col.lower().strip() of a column label
LowerStrip(col) ==
    CASE col = "Gold Medal"   -> "gold medal"
      [] col = "Silver Medal" -> "silver medal"
      [] col = "Bronze Medal" -> "bronze medal"
      [] col = "Gold"         -> "gold"
      [] col = "Silver"       -> "silver"
      [] col = "Bronze"       -> "bronze"
      [] col = "Total"        -> "total"
      [] col = " total "      -> "total"
      [] col = "NOC"          -> "noc"
      [] col = "Code"         -> "code"
      [] col = "Country"      -> "country"
      [] OTHER                -> col

\* 'gold' in col_lower, 'silver' in col_lower, 'bronze' in col_lower
InLower(word, col_lower) ==
    CASE word = "gold"   -> col_lower \in {"gold medal", "gold", "gold_count"}
      [] word = "silver" -> col_lower \in {"silver medal", "silver"}
      [] word = "bronze" -> col_lower \in {"bronze medal", "bronze"}
      [] OTHER           -> FALSE

\* column_mapping[col] = name
DictSet(m, col, name) ==
    [k \in (DOMAIN m) \cup {col} |-> IF k = col THEN name ELSE m[k]]

DictValues(m) == {m[k] : k \in DOMAIN m}

\* one pass of the loop `for col in df.columns`
MapColumn(m, col) ==
    LET col_lower == LowerStrip(col)
    IN  IF col_lower = "total" THEN DictSet(m, col, "Total")
        ELSE IF InLower("gold", col_lower) /\ "Gold" \notin DictValues(m)
             THEN DictSet(m, col, "Gold")
        ELSE IF InLower("silver", col_lower) /\ "Silver" \notin DictValues(m)
             THEN DictSet(m, col, "Silver")
        ELSE IF InLower("bronze", col_lower) /\ "Bronze" \notin DictValues(m)
             THEN DictSet(m, col, "Bronze")
        ELSE IF col \in {"country_code", "code", "noc", "NOC"} \/ col_lower = "code"
             THEN DictSet(m, col, "country_code")
        ELSE IF col = "country" \/ col_lower = "country"
             THEN DictSet(m, col, "country")
        ELSE m

RECURSIVE column_mapping(_, _)
column_mapping(cols, m) ==
    IF cols = <<>> THEN m
    ELSE column_mapping(Tail(cols), MapColumn(m, Head(cols)))

\* df.rename(columns=column_mapping)
rename(d, m) ==
    [d EXCEPT !.cols = [i \in 1..Len(d.cols) |->
                           IF d.cols[i] \in DOMAIN m THEN m[d.cols[i]] ELSE d.cols[i]]]

LabelCount(d, c) == Cardinality({i \in 1..Len(d.cols) : d.cols[i] = c})

\* df.sort_values(by, ascending=False).reset_index(drop=True): the default
\* kind is 'quicksort', which is not stable, so rows of equal key may come
\* out in any order.  The set of the orders a build may produce.
sort_values_desc(d, by) ==
    IF LabelCount(d, by) # 1 THEN {Raised}
    ELSE
      LET n == Len(d.rows)
          k == ColIdx(d, by)
      IN  {[d EXCEPT !.rows = [i \in 1..n |-> d.rows[p[i]]]] :
              p \in {q \in Permutations(1..n) :
                        \A i \in 1..(n - 1) : d.rows[q[i]][k] >= d.rows[q[i + 1]][k]}}

\* Total computed without the bronze medals
normalize_columns_no_bronze(d) ==
    LET r == rename(d, column_mapping(d.cols, <<>>))
    IN  IF ~HasCol(r, "Total") /\ HasCol(r, "Gold") /\ HasCol(r, "Silver") /\ HasCol(r, "Bronze")
        THEN [cols |-> Append(r.cols, "Total"),
              rows |-> [i \in 1..Len(r.rows) |->
                          Append(r.rows[i],
                                 Cell(r, r.rows[i], "Gold") + Cell(r, r.rows[i], "Silver"))]]
        ELSE r

\* lines 96-124: the copy, the renaming and the computed Total
normalize_columns(d) ==
    LET r == rename(d, column_mapping(d.cols, <<>>))
    IN  IF ~HasCol(r, "Total") /\ HasCol(r, "Gold") /\ HasCol(r, "Silver") /\ HasCol(r, "Bronze")
        THEN IF LabelCount(r, "Gold") # 1 \/ LabelCount(r, "Silver") # 1
                \/ LabelCount(r, "Bronze") # 1
             THEN Raised
             ELSE [cols |-> Append(r.cols, "Total"),
                   rows |-> [i \in 1..Len(r.rows) |->
                               Append(r.rows[i],
                                      Cell(r, r.rows[i], "Gold") + Cell(r, r.rows[i], "Silver")
                                      + Cell(r, r.rows[i], "Bronze"))]]
        ELSE r

\* the set of tables normalize_medal_columns(df) may return
normalize_medal_columns(d) ==
    LET r == normalize_columns(d)
    IN  IF r = Raised THEN {Raised}
        ELSE IF HasCol(r, "Total") THEN sort_values_desc(r, "Total")
        ELSE {r}

\* the set of tables add_continent_to_dataframe(df) may return (country_col=None)
add_continent_to_dataframe(d) ==
    IF empty(d) THEN {d}
    ELSE {IF n = Raised THEN Raised
          ELSE LET country_col ==
                       IF HasCol(n, "country_code") THEN "country_code"
                       ELSE FirstCol(n, <<"code", "noc", "NOC", "Country Code">>)
               IN  IF country_col # NoCol THEN add_continent_column(n, country_col) ELSE n
          : n \in normalize_medal_columns(d)}

\* calculate_medal_counts(df, group_by): medal_type values in the order in
\* which unstack lays out the columns (sorted)
MedalValueOrder ==
    <<"Bronze", "Bronze Medal", "Gold", "Gold Medal", "Silver", "Silver Medal">>

\* sorted order of the country cells (codes before names, as upper case sorts first)
CountryOrder ==
    <<"FRA", "France", "GBR", "KEN", "Kenya", "USA", "XYZ", "fra">>

SortedSeq(order, S) == SelectSeq(order, LAMBDA x : x \in S)

calculate_medal_counts(d, group_by) ==
    IF empty(d) THEN {EmptyFrame}
    ELSE
      LET medal_col == FirstCol(d, <<"medal_type", "medal", "Medal">>)
      IN  IF medal_col = NoCol THEN {EmptyFrame}
          ELSE IF ~HasCol(d, group_by) THEN {Raised}
          ELSE
            LET groups == SortedSeq(CountryOrder, {Cell(d, d.rows[i], group_by) : i \in 1..Len(d.rows)})
                types  == SortedSeq(MedalValueOrder,
                                    {Cell(d, d.rows[i], medal_col) : i \in 1..Len(d.rows)})
                added  == SelectSeq(<<"Gold", "Silver", "Bronze">>,
                                    LAMBDA m : \A j \in 1..Len(types) : types[j] # m)
                size(g, m) == Cardinality({i \in 1..Len(d.rows) :
                                  Cell(d, d.rows[i], group_by) = g
                                  /\ Cell(d, d.rows[i], medal_col) = m})
                counts == [cols |-> <<group_by>> \o types \o added,
                           rows |-> [i \in 1..Len(groups) |->
                                       <<groups[i]>>
                                       \o [j \in 1..Len(types) |-> size(groups[i], types[j])]
                                       \o [j \in 1..Len(added) |-> 0]]]
                total == [cols |-> Append(counts.cols, "Total"),
                          rows |-> [i \in 1..Len(counts.rows) |->
                                      Append(counts.rows[i],
                                             Cell(counts, counts.rows[i], "Gold")
                                             + Cell(counts, counts.rows[i], "Silver")
                                             + Cell(counts, counts.rows[i], "Bronze"))]]
            IN  sort_values_desc(total, "Total")

\* (olympics_date - birth_date).dt.days for olympics_date = 2024-07-26, tabulated
\* over the birth dates of the inputs
DaysBefore(birth_date) ==
    CASE birth_date = "2004-07-26" -> 7305
      [] birth_date = "1994-07-27" -> 10957
      [] birth_date = "1994-07-26" -> 10958
      [] birth_date = "1924-08-19" -> 36501
      [] birth_date = "1923-08-20" -> 36866
      [] birth_date = "2024-01-01" -> 207
      [] birth_date = "2026-01-01" -> 0 - 524

\* the dates pd.to_datetime(errors='coerce') parses; anything else becomes NaT
ParsedDates ==
    {"2004-07-26", "1994-07-27", "1994-07-26", "1924-08-19", "1923-08-20", "2024-01-01",
     "2026-01-01"}

\* days // 365 (floor division); NaT gives NaN
AgeOf(birth_date) ==
    IF birth_date \in ParsedDates THEN DaysBefore(birth_date) \div 365 ELSE NaNNum

RECURSIVE drop_duplicates(_)
drop_duplicates(rows) ==
    IF rows = <<>> THEN <<>>
    ELSE LET rest == drop_duplicates(SubSeq(rows, 1, Len(rows) - 1))
             last == rows[Len(rows)]
         IN  IF \E i \in 1..(Len(rows) - 1) : rows[i] = last THEN rest ELSE Append(rest, last)

clean_athlete_data(d) ==
    LET u == [d EXCEPT !.rows = drop_duplicates(d.rows)]
        g == IF HasCol(u, "gender")
             THEN [u EXCEPT !.rows = [i \in 1..Len(u.rows) |->
                       [u.rows[i] EXCEPT ![ColIdx(u, "gender")] =
                           IF @ = NaN THEN NaN ELSE StripTitle(@)]]]
             ELSE u
    IN  IF HasCol(g, "birth_date")
        THEN IF HasCol(g, "age")
             THEN [g EXCEPT !.rows = [i \in 1..Len(g.rows) |->
                       [g.rows[i] EXCEPT ![ColIdx(g, "age")] =
                           AgeOf(Cell(g, g.rows[i], "birth_date"))]]]
             ELSE [cols |-> Append(g.cols, "age"),
                   rows |-> [i \in 1..Len(g.rows) |->
                               Append(g.rows[i], AgeOf(Cell(g, g.rows[i], "birth_date")))]]
        ELSE g

-----------------------------------------------------------------------------
(* utils/metrics.py, as the Overview page calls them: one table, no filters *)

calculate_total_athletes(athletes_df) ==
    IF empty(athletes_df) THEN 0 ELSE Len(athletes_df.rows)

calculate_total_countries(d) ==
    IF empty(d) THEN 0
    ELSE LET country_col == FirstCol(d, <<"country_code", "code", "country", "noc", "NOC",
                                          "Country", "Country Code">>)
         IN  IF country_col = NoCol THEN 0
             ELSE Cardinality({Cell(d, d.rows[i], country_col) : i \in 1..Len(d.rows)} \ {NaN})

calculate_total_medals(d) ==
    IF empty(d) THEN 0
    ELSE IF HasCol(d, "Gold") /\ HasCol(d, "Silver") /\ HasCol(d, "Bronze")
         THEN SumSeq([i \in 1..Len(d.rows) |-> Cell(d, d.rows[i], "Gold")])
              + SumSeq([i \in 1..Len(d.rows) |-> Cell(d, d.rows[i], "Silver")])
              + SumSeq([i \in 1..Len(d.rows) |-> Cell(d, d.rows[i], "Bronze")])
    ELSE IF HasCol(d, "Total")
         THEN SumSeq([i \in 1..Len(d.rows) |-> Cell(d, d.rows[i], "Total")])
    ELSE IF HasCol(d, "total")
         THEN SumSeq([i \in 1..Len(d.rows) |-> Cell(d, d.rows[i], "total")])
    ELSE Len(d.rows)

calculate_total_events(events_df) ==
    IF empty(events_df) THEN 0 ELSE Len(events_df.rows)

\* calculate_total_sports(events_df, medals_df, filters)
calculate_total_sports(events_df, medals, f) ==
    LET needs_filtering ==
            "All" \notin f.continents \/ "All" \notin f.countries \/ f.gender # "All"
        d == IF needs_filtering THEN medals ELSE events_df
    IN  IF empty(d) THEN 0
        ELSE
          LET byContinent ==
                  IF needs_filtering /\ "All" \notin f.continents /\ HasCol(d, "continent")
                  THEN SelectSeq(d.rows, LAMBDA r : Cell(d, r, "continent") \in f.continents)
                  ELSE d.rows
              country_col == FirstCol(d, <<"country_code", "code", "country", "noc">>)
              byCountry ==
                  IF needs_filtering /\ "All" \notin f.countries /\ country_col # NoCol
                  THEN SelectSeq(byContinent, LAMBDA r : Cell(d, r, country_col) \in f.countries)
                  ELSE byContinent
              gender_col == FirstCol(d, <<"gender", "Gender", "sex", "Sex">>)
              byGender ==
                  IF needs_filtering /\ f.gender # "All" /\ gender_col # NoCol
                  THEN SelectSeq(byCountry,
                                 LAMBDA r : Cell(d, r, gender_col) # NaN
                                            /\ StripTitle(Cell(d, r, gender_col)) = f.gender)
                  ELSE byCountry
              sport_col == FirstCol(d, <<"sport", "Sport", "discipline", "Discipline">>)
          IN  IF sport_col = NoCol THEN 0
              ELSE Cardinality({byGender[i][ColIdx(d, sport_col)] : i \in 1..Len(byGender)}
                               \ {NaN})

-----------------------------------------------------------------------------
(* utils/filters.py: create_sidebar_filters *)

\* lines 59-61 alone: "All" stays beside a specific choice
multiselect_value_keeps_all(raw) == IF raw = {} THEN {"All"} ELSE raw

\* lines 55-61, 89-95, 115-121: "All" is dropped beside a specific choice,
\* and an empty multiselect stands for "All"
multiselect_value(raw) ==
    LET without_all == IF "All" \in raw /\ Cardinality(raw) > 1 THEN raw \ {"All"} ELSE raw
    IN  IF without_all = {} THEN {"All"} ELSE without_all

\* lines 164-170
checked_medal_types(w) ==
    (IF w.show_gold THEN {"Gold"} ELSE {})
    \cup (IF w.show_silver THEN {"Silver"} ELSE {})
    \cup (IF w.show_bronze THEN {"Bronze"} ELSE {})

\* lines 67-79: the countries the country multiselect offers
country_options(medals, continents) ==
    IF empty(medals) THEN {}
    ELSE
      LET m == IF ~HasCol(medals, "continent")
               THEN add_continent_column(medals, "country_code") ELSE medals
          shown == IF "All" \notin continents /\ HasCol(m, "continent")
                   THEN SelectSeq(m.rows, LAMBDA r : Cell(m, r, "continent") \in continents)
                   ELSE m.rows
          country_col == IF HasCol(m, "country") THEN "country" ELSE "country_code"
      IN  {shown[i][ColIdx(m, country_col)] : i \in 1..Len(shown)} \ {NaN}

\* lines 183-200: the age slider is drawn when the athletes carry an age
slider_shown(athletes_df) ==
    /\ ~empty(athletes_df)
    /\ HasCol(athletes_df, "age")
    /\ \E i \in 1..Len(athletes_df.rows) : Cell(athletes_df, athletes_df.rows[i], "age") # NaNNum

\* the dict returned for the widget values w; the pages of this model pass
\* show_sport=False, so no sport is selected
create_sidebar_filters(w, athletes_df, medals) ==
    [continents  |-> multiselect_value(w.continents_raw),
     countries   |-> IF ~empty(medals) THEN multiselect_value(w.countries_raw) ELSE {"All"},
     sports      |-> {"All"},
     medal_types |-> checked_medal_types(w),
     gender      |-> w.gender,
     age_range   |-> IF slider_shown(athletes_df) THEN w.age_range ELSE NoAgeRange]

-----------------------------------------------------------------------------
(* Overview.py *)

\* load_all_overview_data, lines 72-74: the tables medals_total may become
load_medals_total(raw) ==
    IF empty(raw) THEN {raw}
    ELSE UNION {IF n = Raised THEN {Raised} ELSE add_continent_to_dataframe(n)
                : n \in normalize_medal_columns(raw)}

\* load_all_overview_data, lines 77-79
load_medallists_continent(raw) ==
    IF empty(raw) THEN raw ELSE add_continent_column(raw, "country_code")

GroupKeys == <<"country_code", "country", "medal_type", "discipline", "event">>

\* the key without the event: the medals of one discipline fall together
GroupKey_no_event(d, r) == [j \in 1..4 |-> Cell(d, r, GroupKeys[j])]

GroupKey(d, r) == [j \in 1..Len(GroupKeys) |-> Cell(d, r, GroupKeys[j])]

\* lines 178-180: groupby(GroupKeys).first(): the first row of every group;
\* a row with a missing key cell belongs to no group
RECURSIVE first_of_groups(_, _)
first_of_groups(d, n) ==
    IF n = 0 THEN <<>>
    ELSE LET before == first_of_groups(d, n - 1)
             key == GroupKey(d, d.rows[n])
         IN  IF (\E j \in 1..Len(key) : key[j] = NaN)
                \/ (\E i \in 1..(n - 1) : GroupKey(d, d.rows[i]) = key)
             THEN before
             ELSE Append(before, d.rows[n])

unique_medals(d) ==
    IF \E j \in 1..Len(GroupKeys) : ~HasCol(d, GroupKeys[j]) THEN Raised
    ELSE [d EXCEPT !.rows = first_of_groups(d, Len(d.rows))]

\* line 186: groupby([country_col, 'medal_type']).size().unstack(fill_value=0)
count_medals(u) ==
    LET country_col == IF HasCol(u, "country") THEN "country" ELSE "country_code"
        countries == {Cell(u, u.rows[i], country_col) : i \in 1..Len(u.rows)}
        types == {Cell(u, u.rows[i], "medal_type") : i \in 1..Len(u.rows)}
    IN  [p \in countries \X types |->
            Cardinality({i \in 1..Len(u.rows) :
                Cell(u, u.rows[i], country_col) = p[1]
                /\ Cell(u, u.rows[i], "medal_type") = p[2]})]

\* lines 197-202: the count of one column of medal_counts, 0 when it is absent
medal_column(counts, country, medal) ==
    IF <<country, medal>> \in DOMAIN counts THEN counts[<<country, medal>>] ELSE 0

\* lines 189-215: the tally before it is sorted
assemble_tally(counts) ==
    LET countries == SortedSeq(CountryOrder, {p[1] : p \in DOMAIN counts})
        base == [cols |-> <<"country", "Gold", "Silver", "Bronze", "Total">>,
                 rows |-> [i \in 1..Len(countries) |->
                    LET gold   == medal_column(counts, countries[i], "Gold Medal")
                        silver == medal_column(counts, countries[i], "Silver Medal")
                        bronze == medal_column(counts, countries[i], "Bronze Medal")
                    IN  <<countries[i], gold, silver, bronze, gold + silver + bronze>>]]
    IN  add_continent_column(base, "country")

\* lines 169-223: the tallies the page may display
\* the test of line 169 without the age range
recompute_path_gender_only(f) == f.gender # "All"

recompute_path(f) == f.gender # "All" \/ f.age_range # NoAgeRange

recomputed_tally(fm) ==
    IF empty(fm) THEN {EmptyFrame}
    ELSE IF unique_medals(fm) = Raised THEN {Raised}
    ELSE sort_values_desc(assemble_tally(count_medals(unique_medals(fm))), "Total")

\* continent_mapper.py line 49: the codes the table maps to the continent
get_countries_by_continent(continent_name) ==
    {code \in {"FRA", "GBR", "KEN", "RSA", "USA"} : CONTINENT_MAP_get(code) = continent_name}

\* Overview.py lines 86-87: str(name).strip().lower()
normalize_sport_name(name) ==
    CASE name = "Rowing"  -> "rowing"
      [] name = "ROWING"  -> "rowing"
      [] name = "Judo"    -> "judo"
      [] name = "judo "   -> "judo"
      [] name = "Archery" -> "archery"
      [] name = "Fencing" -> "fencing"
      [] OTHER            -> name

\* the sports that count without the normalisation of their names
sports_with_participation_raw_names(sports_from_medals, sports_from_results) ==
    sports_from_medals \cup sports_from_results

\* Overview.py line 162
sports_with_participation(sports_from_medals, sports_from_results) ==
    {normalize_sport_name(s) : s \in sports_from_medals}
    \cup {normalize_sport_name(s) : s \in sports_from_results}

\* Overview.py lines 98-118; line 153 tests the truth of the result only, which
\* is the same for None and for the empty set, so None is written {}
country_codes_to_check(medallists, f) ==
    IF "All" \notin f.countries
    THEN IF ~empty(medallists)
         THEN UNION {LET matching == {i \in 1..Len(medallists.rows) :
                                         Cell(medallists, medallists.rows[i], "country") = country_name}
                     IN  IF matching # {}
                         THEN {Cell(medallists, medallists.rows[i], "country_code") :
                                  i \in matching} \ {NaN}
                         ELSE {country_name}
                     : country_name \in f.countries}
         ELSE {}
    ELSE IF "All" \notin f.continents
    THEN UNION {get_countries_by_continent(continent) : continent \in f.continents}
    ELSE {}

\* Overview.py lines 121-144
sports_from_medals(medallists, f) ==
    IF ~empty(medallists) /\ HasCol(medallists, "discipline")
    THEN LET c == IF "All" \notin f.continents /\ ~HasCol(medallists, "continent")
                  THEN add_continent_column(medallists, "country_code") ELSE medallists
             byContinent ==
                 IF "All" \notin f.continents /\ HasCol(c, "continent")
                 THEN SelectSeq(c.rows, LAMBDA r : Cell(c, r, "continent") \in f.continents)
                 ELSE c.rows
             country_col == IF HasCol(c, "country") THEN "country" ELSE "country_code"
             byCountry ==
                 IF "All" \notin f.countries /\ HasCol(c, country_col)
                 THEN SelectSeq(byContinent, LAMBDA r : Cell(c, r, country_col) \in f.countries)
                 ELSE byContinent
             byGender ==
                 IF f.gender # "All" /\ HasCol(c, "gender")
                 THEN SelectSeq(byCountry,
                                LAMBDA r : Cell(c, r, "gender") # NaN
                                           /\ StripTitle(Cell(c, r, "gender")) = f.gender)
                 ELSE byCountry
         IN  {Cell(c, byGender[i], "discipline") : i \in 1..Len(byGender)} \ {NaN}
    ELSE {}

\* Overview.py lines 147-159
sports_from_results(results, codes) ==
    {sport_key \in DOMAIN results :
        /\ ~empty(results[sport_key])
        /\ HasCol(results[sport_key], "participant_country_code")
        /\ IF codes # {}
           THEN \E i \in 1..Len(results[sport_key].rows) :
                    Cell(results[sport_key], results[sport_key].rows[i],
                         "participant_country_code") \in codes
           ELSE TRUE}

calculate_total_sports_with_participation(medallists, results, f) ==
    Cardinality(sports_with_participation(
                    sports_from_medals(medallists, f),
                    sports_from_results(results, country_codes_to_check(medallists, f))))

-----------------------------------------------------------------------------
(* pages/2_Global_Analysis.py *)

\* lines 49-50
load_global_data(raw) ==
    IF ~empty(raw) /\ HasCol(raw, "country_code")
    THEN add_continent_column(raw, "country_code") ELSE raw

CountOf(d, rows, medal) ==
    Cardinality({i \in 1..Len(rows) : Cell(d, rows[i], "medal_type") = medal})

\* lines 66-87
global_medals_by_country(fm, f) ==
    IF empty(fm) THEN EmptyFrame
    ELSE IF ~HasCol(fm, "country_code") \/ ~HasCol(fm, "country") \/ ~HasCol(fm, "continent")
            \/ ~HasCol(fm, "medal_type")
    THEN Raised
    ELSE
      LET keyOf(r) == <<Cell(fm, r, "country_code"), Cell(fm, r, "country"),
                        Cell(fm, r, "continent")>>
          codes == SortedSeq(CountryOrder, {Cell(fm, fm.rows[i], "country_code") : i \in 1..Len(fm.rows)})
          keySet == {keyOf(fm.rows[i]) : i \in 1..Len(fm.rows)}
          \* groups in the sorted order of the keys; one (country, continent) per code here
          keys == [i \in 1..Len(codes) |-> CHOOSE k \in keySet : k[1] = codes[i]]
          group(k) == SelectSeq(fm.rows, LAMBDA r : keyOf(r) = k)
          row(k) ==
              LET Gold   == CountOf(fm, group(k), "Gold Medal")
                  Silver == CountOf(fm, group(k), "Silver Medal")
                  Bronze == CountOf(fm, group(k), "Bronze Medal")
                  Display_Total ==
                      (IF "Gold" \in f.medal_types THEN Gold ELSE 0)
                      + (IF "Silver" \in f.medal_types THEN Silver ELSE 0)
                      + (IF "Bronze" \in f.medal_types THEN Bronze ELSE 0)
              IN  <<k[1], k[2], k[3], Gold, Silver, Bronze, Display_Total, Gold + Silver + Bronze>>
          all == [i \in 1..Len(keys) |-> row(keys[i])]
      IN  [cols |-> <<"country_code", "country", "continent", "Gold", "Silver", "Bronze",
                      "Display_Total", "Total">>,
           rows |-> SelectSeq(all, LAMBDA r : r[7] > 0)]

-----------------------------------------------------------------------------
(* Inputs *)

CountryName(code) ==
    CASE code = "FRA" -> "France"
      [] code = "KEN" -> "Kenya"
      [] OTHER        -> code

DefaultFilters ==
    [continents |-> {"All"}, countries |-> {"All"}, sports |-> {"All"},
     medal_types |-> MEDAL_TYPES, gender |-> "All", age_range |-> NoAgeRange]

NoWidgets ==
    [continents_raw |-> {"All"}, countries_raw |-> {"All"}, show_gold |-> TRUE,
     show_silver |-> TRUE, show_bronze |-> TRUE, gender |-> "All", age_range |-> NoAgeRange]

Tables(cols, rowUniverse, n) == {[cols |-> cols, rows |-> r] : r \in SeqsUpTo(rowUniverse, n)}

\* per-record medal rows (medals.csv / medallists.csv)
RecordCols == <<"country_code", "country", "discipline", "medal_type">>
RecordRows ==
    {<<"FRA", "France", d, m>> :
        d \in {"Rowing", "Judo"}, m \in {"Gold", "Gold Medal", "Silver Medal"}}
    \cup {<<"KEN", "Kenya", "Rowing", m>> : m \in {"Gold", "Gold Medal", "Silver Medal"}}

\* pre-aggregated rows in the canonical shape
AggregatedCols == <<"country_code", "country", "Gold", "Silver", "Bronze", "Total">>
AggregatedRows ==
    {<<c, CountryName(c), m[1], m[2], m[3], m[1] + m[2] + m[3]>> :
        c \in {"FRA", "KEN", "XYZ"}, m \in {<<0, 0, 0>>, <<1, 0, 0>>}}
    \cup {<<"FRA", "France", m[1], m[2], m[3], m[1] + m[2] + m[3]>> :
              m \in {<<0, 1, 0>>, <<2, 0, 1>>}}
    \cup {<<c, "Refugee Team", 1, 0, 0, 1>> : c \in {NaN, ""}}

\* athlete rows
AthleteCols == <<"country_code", "country", "gender", "age">>
AthleteRows ==
    {<<"FRA", "France", g, a>> : g \in {"Male", " female "}, a \in {NaNNum, 19, 20, 30, 31}}

\* event rows: no country column
EventCols == <<"sport", "event">>
EventRows == {<<sp, "Men's Four">> : sp \in {"Rowing", "Judo"}}

FilterTables ==
    Tables(RecordCols, RecordRows, MaxRows) \cup Tables(AggregatedCols, AggregatedRows, MaxRows)
    \cup Tables(AthleteCols, AthleteRows, MaxRows) \cup Tables(EventCols, EventRows, MaxRows)

ActiveDims(f) ==
    Cardinality({k \in {"continents", "countries", "sports", "medal_types", "gender", "age_range"} :
                    f[k] # DefaultFilters[k]})

AllSelections ==
    [continents  : {{"All"}, {"Europe"}, {"Africa", "Unknown"}, {}},
     countries   : {{"All"}, {"France"}, {}},
     sports      : {{"All"}, {"Rowing"}, {}},
     medal_types : {MEDAL_TYPES, {"Gold"}, {"Gold", "Silver"}, {}},
     gender      : {"All", "Male", "Female"},
     age_range   : {NoAgeRange, <<20, 30>>}]

FilterSelections == {f \in AllSelections : ActiveDims(f) <= MaxActive}

-----------------------------------------------------------------------------
(* apply_filters called on a table, and again on its result *)

InitFilter ==
    /\ pc = "apply_filters"
    /\ df \in FilterTables
    /\ filters \in FilterSelections
    /\ filtered_df = EmptyFrame
    /\ refiltered_df = EmptyFrame
    /\ raw_df = EmptyFrame /\ normalized_df = EmptyFrame /\ renormalized_df = EmptyFrame
    /\ medals_total_df = EmptyFrame /\ medallists_df = EmptyFrame
    /\ filtered_medallists = EmptyFrame /\ medal_counts = <<>>
    /\ filtered_medals_total = EmptyFrame
    /\ medals_df = EmptyFrame /\ medals_by_country = EmptyFrame
    /\ raw_widgets = NoWidgets /\ called = "" /\ returned = EmptyFrame
    /\ files = <<>> /\ messages = <<>> /\ all_results = <<>> /\ kpi_data = <<>>
    /\ cache = <<>> /\ session_state = <<>>

ApplyFilters ==
    /\ pc = "apply_filters"
    /\ filtered_df' = apply_filters(df, filters)
    /\ pc' = "applied"
    /\ UNCHANGED <<files, messages, all_results, kpi_data>>
    /\ UNCHANGED <<df, filters, refiltered_df, raw_df, normalized_df, renormalized_df,
                   medals_total_df, medallists_df, filtered_medallists, medal_counts,
                   filtered_medals_total, medals_df, medals_by_country, raw_widgets,
                   called, returned>>
    /\ UNCHANGED <<cache, session_state>>

ApplyFiltersAgain ==
    /\ pc = "applied"
    /\ refiltered_df' = apply_filters(filtered_df, filters)
    /\ pc' = "reapplied"
    /\ UNCHANGED <<files, messages, all_results, kpi_data>>
    /\ UNCHANGED <<df, filters, filtered_df, raw_df, normalized_df, renormalized_df,
                   medals_total_df, medallists_df, filtered_medallists, medal_counts,
                   filtered_medals_total, medals_df, medals_by_country, raw_widgets,
                   called, returned>>
    /\ UNCHANGED <<cache, session_state>>

NextFilter == ApplyFilters \/ ApplyFiltersAgain

SpecFilter == InitFilter /\ [][NextFilter]_vars

-----------------------------------------------------------------------------
(* Claims about apply_filters (SpecFilter) *)

IsAggregated(d) == HasCol(d, "Gold") /\ HasCol(d, "Silver") /\ HasCol(d, "Bronze")

IsPerRecord(d) == ~IsAggregated(d) /\ get_medal_column(d) # NoCol

OnlyActive(f, dims) ==
    \A k \in {"continents", "countries", "sports", "medal_types", "gender", "age_range"} \ dims :
        f[k] = DefaultFilters[k]

\* C4: on a per-record table, medal_types = ['Gold'] keeps every row whose
\* medal_type is 'Gold' or 'Gold Medal', and no other row.
C4_GoldMatchesBothRepresentations ==
    (pc = "applied" /\ IsPerRecord(df) /\ filters.medal_types = {"Gold"}
     /\ OnlyActive(filters, {"medal_types"}))
    => filtered_df.rows =
           SelectSeq(df.rows, LAMBDA r : Cell(df, r, "medal_type") \in {"Gold", "Gold Medal"})

\* C5: apply_filters is idempotent: applying the selection to the result of
\* applying it gives the same table, rows and columns.
C5_Idempotent == pc = "reapplied" => refiltered_df = filtered_df

C5_Witness ==
    /\ pc = "reapplied"
    /\ ActiveDims(filters) = 2
    /\ Len(filtered_df.rows) > 0
    /\ Len(filtered_df.rows) < Len(df.rows)
    /\ filtered_df.cols # df.cols

C5_WitnessEmptied ==
    pc = "reapplied" /\ Len(df.rows) > 0 /\ Len(filtered_df.rows) = 0

\* The six filters of apply_filters, applied in a given order after the
\* continent column is derived.
FilterStep(name, d, f) ==
    CASE name = "continent" -> FilterContinent(d, f)
      [] name = "country"   -> FilterCountry(d, f)
      [] name = "sport"     -> FilterSport(d, f)
      [] name = "medal"     -> FilterMedal(d, f)
      [] name = "gender"    -> FilterGender(d, f)
      [] name = "age"       -> FilterAge(d, f)

RECURSIVE ApplySteps(_, _, _)
ApplySteps(order, d, f) ==
    IF order = <<>> THEN d
    ELSE ApplySteps(Tail(order), FilterStep(Head(order), d, f), f)

StepNames == {"continent", "country", "sport", "medal", "gender", "age"}

\* the filters whose condition on the selection holds; apply_filters skips the others
StepActive(name, f) ==
    CASE name = "continent" -> "All" \notin f.continents
      [] name = "country"   -> "All" \notin f.countries
      [] name = "sport"     -> "All" \notin f.sports
      [] name = "medal"     -> f.medal_types # {}
      [] name = "gender"    -> f.gender # "All"
      [] name = "age"       -> f.age_range # NoAgeRange

\* the orders in which the active filters can be applied
StepOrders(f) ==
    LET active == {n \in StepNames : StepActive(n, f)}
    IN  {o \in [1..Cardinality(active) -> active] :
            \A i, j \in 1..Cardinality(active) : i # j => o[i] # o[j]}

OneRow(d, i) == [d EXCEPT !.rows = <<d.rows[i]>>]

\* the rows apply_filters keeps when it is given the rows of d one at a time
RECURSIVE RowByRow(_, _, _)
RowByRow(d, f, n) ==
    IF n = 0 THEN <<>>
    ELSE RowByRow(d, f, n - 1) \o apply_filters(OneRow(d, n), f).rows

\* C6: a row is kept exactly when it satisfies every active predicate by
\* itself, whatever the other rows of the table are, and every order of the
\* active filters gives the result of apply_filters.
C6_RowPredicatesAnyOrder ==
    pc = "applied" =>
        /\ filtered_df.rows = RowByRow(df, filters, Len(df.rows))
        /\ \A o \in StepOrders(filters) :
              empty(df) \/ ApplySteps(o, EnsureContinent(df, filters), filters) = filtered_df

DefaultKeeps(d, r) ==
    IF IsAggregated(d)
    THEN Cell(d, r, "Gold") + Cell(d, r, "Silver") + Cell(d, r, "Bronze") > 0
    ELSE IF IsPerRecord(d)
    THEN LET col == get_medal_column(d)
         IN  IF \E i \in 1..Len(d.rows) : ContainsMedal(Cell(d, d.rows[i], col))
             THEN Cell(d, r, col) \in {"Gold Medal", "Silver Medal", "Bronze Medal"}
             ELSE Cell(d, r, col) \in {"Gold", "Silver", "Bronze"}
    ELSE TRUE

-----------------------------------------------------------------------------
(* normalize_medal_columns called on a medal table, and again on its result *)

\* column layouts of medal tables: the file of the repository, bare names
\* without Total, lower-case names, a suffixed and a bare column for the same
\* medal type, and a single medal column
NormLayouts ==
    {<<"country_code", "country", "Gold Medal", "Silver Medal", "Bronze Medal", "Total">>,
     <<"code", "country", "Gold", "Silver", "Bronze">>,
     <<"NOC", "Country", "gold", "silver", "bronze", "total">>,
     <<"country_code", "country", "Gold Medal", "Gold", "Silver", "Bronze", "Total">>,
     <<"country_code", "country", "gold_count">>}

\* rows of a layout: a country and a count of 0 or 1 in every other column
NormRows(cols) ==
    {<<c, CountryName(c)>> \o n : c \in {"FRA", "KEN"}, n \in [1..(Len(cols) - 2) -> 0..1]}

InitNorm ==
    /\ pc = "normalize"
    /\ \E cols \in NormLayouts : raw_df \in Tables(cols, NormRows(cols), MaxRows)
    /\ normalized_df = EmptyFrame /\ renormalized_df = EmptyFrame
    /\ df = EmptyFrame /\ filters = DefaultFilters
    /\ filtered_df = EmptyFrame /\ refiltered_df = EmptyFrame
    /\ medals_total_df = EmptyFrame /\ medallists_df = EmptyFrame
    /\ filtered_medallists = EmptyFrame /\ medal_counts = <<>>
    /\ filtered_medals_total = EmptyFrame
    /\ medals_df = EmptyFrame /\ medals_by_country = EmptyFrame
    /\ raw_widgets = NoWidgets /\ called = "" /\ returned = EmptyFrame
    /\ files = <<>> /\ messages = <<>> /\ all_results = <<>> /\ kpi_data = <<>>
    /\ cache = <<>> /\ session_state = <<>>

Normalize ==
    /\ pc = "normalize"
    /\ normalized_df' \in normalize_medal_columns(raw_df)
    /\ pc' = "normalized"
    /\ UNCHANGED <<files, messages, all_results, kpi_data>>
    /\ UNCHANGED <<df, filters, filtered_df, refiltered_df, raw_df, renormalized_df,
                   medals_total_df, medallists_df, filtered_medallists, medal_counts,
                   filtered_medals_total, medals_df, medals_by_country, raw_widgets,
                   called, returned>>
    /\ UNCHANGED <<cache, session_state>>

NormalizeAgain ==
    /\ pc = "normalized"
    /\ normalized_df # Raised
    /\ renormalized_df' \in normalize_medal_columns(normalized_df)
    /\ pc' = "renormalized"
    /\ UNCHANGED <<files, messages, all_results, kpi_data>>
    /\ UNCHANGED <<df, filters, filtered_df, refiltered_df, raw_df, normalized_df,
                   medals_total_df, medallists_df, filtered_medallists, medal_counts,
                   filtered_medals_total, medals_df, medals_by_country, raw_widgets,
                   called, returned>>
    /\ UNCHANGED <<cache, session_state>>

NextNorm == Normalize \/ NormalizeAgain

SpecNorm == InitNorm /\ [][NextNorm]_vars

-----------------------------------------------------------------------------
(* Overview.py: the script from the load of the data to the displayed tally *)

\* medallists.csv: one row per athlete and medal
MedallistCols ==
    <<"country_code", "country", "medal_type", "discipline", "event", "name", "gender">>

MedallistKeys ==
    {<<"Rowing", "Men's Four">>, <<"Rowing", "Women's Four">>, <<"Judo", "Men's -60kg">>,
     <<"Archery", "Men's Team">>, <<"Fencing", "Men's Team">>}

GenderOfEvent(event) == IF event = "Women's Four" THEN "Female" ELSE "Male"

MedallistRow(c, m, k, name) == <<c, CountryName(c), m, k[1], k[2], name, GenderOfEvent(k[2])>>

\* the medallist rows that write the medal type without the suffix
ScenarioTable ==
    [cols |-> MedallistCols,
     rows |-> <<MedallistRow("FRA", "Gold", <<"Rowing", "Men's Four">>, "A"),
                MedallistRow("FRA", "Gold", <<"Rowing", "Men's Four">>, "B"),
                MedallistRow("FRA", "Silver", <<"Judo", "Men's -60kg">>, "C")>>]

MedallistRows ==
    {MedallistRow("FRA", "Gold Medal", k, "A") : k \in MedallistKeys \ {<<"Judo", "Men's -60kg">>}}
    \cup {MedallistRow("FRA", "Gold Medal", <<"Rowing", "Men's Four">>, "B"),
          MedallistRow("FRA", "Silver Medal", <<"Judo", "Men's -60kg">>, "C"),
          MedallistRow("KEN", "Gold Medal", <<"Rowing", "Men's Four">>, "A")}

\* medals_total.csv: with the column names of the file, or bare names and no Total
TotalsFileCols ==
    <<"country_code", "country", "Gold Medal", "Silver Medal", "Bronze Medal", "Total">>

TotalsFileRows ==
    {<<c, CountryName(c), m[1], m[2], m[3], m[1] + m[2] + m[3] + extra>> :
        c \in {"FRA", "KEN"}, m \in {<<0, 0, 0>>, <<1, 0, 0>>, <<0, 1, 1>>}, extra \in {0, 1}}

TotalsBareCols == <<"code", "country", "Gold", "Silver", "Bronze">>

TotalsBareRows ==
    {<<c, CountryName(c), m[1], m[2], m[3]>> :
        c \in {"FRA", "KEN"}, m \in {<<0, 0, 0>>, <<1, 0, 0>>, <<0, 1, 1>>}}

OverviewTotals ==
    Tables(TotalsFileCols, TotalsFileRows, MaxTally)
    \cup Tables(TotalsBareCols, TotalsBareRows, MaxTally)

OneTotalsFile ==
    [cols |-> TotalsFileCols,
     rows |-> <<<<"FRA", "France", 1, 0, 0, 1>>, <<"KEN", "Kenya", 0, 1, 1, 2>>>>]

\* athletes.csv, with or without an age
OverviewAthletes ==
    {EmptyFrame,
     [cols |-> AthleteCols, rows |-> <<<<"FRA", "France", "Male", 19>>,
                                       <<"FRA", "France", "Female", 31>>>>]}

\* what the widgets of the sidebar may return
OverviewWidgets ==
    [continents_raw : {{"All"}, {}, {"All", "Europe"}},
     countries_raw  : {{"All"}, {"France"}},
     show_gold      : {TRUE},
     show_silver    : BOOLEAN,
     show_bronze    : {TRUE},
     gender         : {"All", "Male", "Female"},
     age_range      : {NoAgeRange, <<19, 31>>}]

\* the number of widgets moved from their default (the checkboxes count as one)
ChangedWidgets(w) ==
    Cardinality({k \in {"continents_raw", "countries_raw", "gender"} : w[k] # NoWidgets[k]})
    + (IF checked_medal_types(w) # MEDAL_TYPES THEN 1 ELSE 0)

InitOverview ==
    /\ pc = "load"
    /\ \/ /\ medallists_df \in Tables(MedallistCols, MedallistRows, MaxMedallists)
          /\ raw_df = OneTotalsFile
       \/ /\ medallists_df \in {EmptyFrame, ScenarioTable}
          /\ raw_df \in OverviewTotals \cup {EmptyFrame}
    /\ medals_total_df = raw_df
    /\ df \in OverviewAthletes
    /\ filters = DefaultFilters /\ raw_widgets = NoWidgets
    /\ filtered_df = EmptyFrame /\ refiltered_df = EmptyFrame
    /\ normalized_df = EmptyFrame /\ renormalized_df = EmptyFrame
    /\ filtered_medallists = EmptyFrame /\ medal_counts = <<>>
    /\ filtered_medals_total = EmptyFrame
    /\ medals_df = EmptyFrame /\ medals_by_country = EmptyFrame
    /\ called = "" /\ returned = EmptyFrame
    /\ files = <<>> /\ messages = <<>> /\ all_results = <<>> /\ kpi_data = <<>>
    /\ cache = <<>> /\ session_state = <<>>

\* lines 60-83
LoadAllOverviewData ==
    /\ pc = "load"
    /\ medals_total_df' \in load_medals_total(medals_total_df)
    /\ medallists_df' = load_medallists_continent(medallists_df)
    /\ pc' = "sidebar"
    /\ UNCHANGED <<files, messages, all_results, kpi_data>>
    /\ UNCHANGED <<df, filters, filtered_df, refiltered_df, raw_df, normalized_df,
                   renormalized_df, filtered_medallists, medal_counts,
                   filtered_medals_total, medals_df, medals_by_country, raw_widgets,
                   called, returned>>
    /\ UNCHANGED <<cache, session_state>>

\* line 166: the widgets of the sidebar are read; a multiselect returns
\* options only, and the slider returns a range when it is drawn
OverviewSidebar ==
    /\ pc = "sidebar"
    /\ \E w \in OverviewWidgets :
          /\ ChangedWidgets(w) <= MaxActive
          /\ w.countries_raw \subseteq
                {"All"} \cup country_options(medallists_df, multiselect_value(w.continents_raw))
          /\ (w.age_range # NoAgeRange) <=> slider_shown(df)
          /\ raw_widgets' = w
          /\ filters' = create_sidebar_filters(w, df, medallists_df)
    /\ pc' = "tally"
    /\ UNCHANGED <<files, messages, all_results, kpi_data>>
    /\ UNCHANGED <<df, filtered_df, refiltered_df, raw_df, normalized_df, renormalized_df,
                   medals_total_df, medallists_df, filtered_medallists, medal_counts,
                   filtered_medals_total, medals_df, medals_by_country, called, returned>>
    /\ UNCHANGED <<cache, session_state>>

\* lines 169-220: a gender or an age range is selected
RecomputeTally ==
    /\ pc = "tally"
    /\ recompute_path(filters)
    /\ LET fm == IF ~empty(medallists_df) THEN apply_filters(medallists_df, filters)
                 ELSE medallists_df
       IN  /\ filtered_medallists' = fm
           /\ medal_counts' = IF empty(fm) \/ unique_medals(fm) = Raised THEN <<>>
                              ELSE count_medals(unique_medals(fm))
           /\ filtered_medals_total' \in recomputed_tally(fm)
    /\ pc' = "displayed"
    /\ UNCHANGED <<files, messages, all_results, kpi_data>>
    /\ UNCHANGED <<df, filters, filtered_df, refiltered_df, raw_df, normalized_df,
                   renormalized_df, medals_total_df, medallists_df, medals_df,
                   medals_by_country, raw_widgets, called, returned>>
    /\ UNCHANGED <<cache, session_state>>

\* lines 221-223: the pre-aggregated table is filtered
FilterMedalsTotal ==
    /\ pc = "tally"
    /\ ~recompute_path(filters)
    /\ medals_total_df # Raised
    /\ filtered_medals_total' = IF ~empty(medals_total_df)
                                THEN apply_filters(medals_total_df, filters)
                                ELSE medals_total_df
    /\ pc' = "displayed"
    /\ UNCHANGED <<files, messages, all_results, kpi_data>>
    /\ UNCHANGED <<df, filters, filtered_df, refiltered_df, raw_df, normalized_df,
                   renormalized_df, medals_total_df, medallists_df, filtered_medallists,
                   medal_counts, medals_df, medals_by_country, raw_widgets, called, returned>>
    /\ UNCHANGED <<cache, session_state>>

\* events.csv
OverviewEvents == [cols |-> EventCols, rows |-> <<<<"Rowing", "Men's Four">>, <<"Judo", "Men's Four">>>>]

\* lines 225-243: the KPI cards
ShowKPIs ==
    /\ pc = "displayed"
    /\ filtered_medals_total # Raised
    /\ LET filtered_athletes == IF ~empty(df) THEN apply_filters(df, filters) ELSE df
           filtered_events   == apply_filters(OverviewEvents, filters)
       IN  kpi_data' =
             [total_athletes  |-> calculate_total_athletes(filtered_athletes),
              total_countries |-> calculate_total_countries(filtered_medals_total),
              total_sports    |-> calculate_total_sports_with_participation(
                                      medallists_df, all_results, filters),
              total_medals    |-> calculate_total_medals(filtered_medals_total),
              total_events    |-> calculate_total_events(filtered_events)]
    /\ pc' = "kpis"
    /\ UNCHANGED <<df, filters, filtered_df, refiltered_df, raw_df, normalized_df,
                   renormalized_df, medals_total_df, medallists_df, filtered_medallists,
                   medal_counts, filtered_medals_total, medals_df, medals_by_country,
                   raw_widgets, called, returned, files, messages, all_results>>
    /\ UNCHANGED <<cache, session_state>>

NextOverview ==
    LoadAllOverviewData \/ OverviewSidebar \/ RecomputeTally \/ FilterMedalsTotal \/ ShowKPIs

SpecOverview == InitOverview /\ [][NextOverview]_vars

-----------------------------------------------------------------------------
(* pages/2_Global_Analysis.py: the script from the load to the tally per country *)

\* medals.csv: one row per medal
MedalCols == <<"country_code", "country", "medal_type", "discipline", "gender">>

MedalRows ==
    {<<"FRA", "France", m, "Rowing", g>> :
        m \in {"Gold Medal", "Silver Medal", "Bronze Medal"}, g \in {"Male", "Female"}}
    \cup {<<"KEN", "Kenya", "Gold Medal", "Rowing", "Male">>,
          <<"FRA", "France", "Gold", "Judo", "Male">>}

\* the page passes no athletes, so no age slider is drawn
GlobalWidgets ==
    {w \in [continents_raw : {{"All"}, {}, {"All", "Europe"}},
            countries_raw  : {{"All"}, {}, {"France"}},
            show_gold      : BOOLEAN,
            show_silver    : BOOLEAN,
            show_bronze    : BOOLEAN,
            gender         : {"All", "Male", "Female"},
            age_range      : {NoAgeRange}] :
        checked_medal_types(w) \in {MEDAL_TYPES, {"Gold", "Silver"}, {"Bronze"}, {}}}

InitGlobal ==
    /\ pc = "load_global"
    /\ medals_df \in Tables(MedalCols, MedalRows, MaxMedallists)
    /\ df = EmptyFrame
    /\ filters = DefaultFilters /\ raw_widgets = NoWidgets
    /\ filtered_df = EmptyFrame /\ refiltered_df = EmptyFrame
    /\ raw_df = EmptyFrame /\ normalized_df = EmptyFrame /\ renormalized_df = EmptyFrame
    /\ medals_total_df = EmptyFrame /\ medallists_df = EmptyFrame
    /\ filtered_medallists = EmptyFrame /\ medal_counts = <<>>
    /\ filtered_medals_total = EmptyFrame
    /\ medals_by_country = EmptyFrame
    /\ called = "" /\ returned = EmptyFrame
    /\ files = <<>> /\ messages = <<>> /\ all_results = <<>> /\ kpi_data = <<>>
    /\ cache = <<>> /\ session_state = <<>>

\* lines 42-54
LoadGlobalData ==
    /\ pc = "load_global"
    /\ medals_df' = load_global_data(medals_df)
    /\ pc' = "global_sidebar"
    /\ UNCHANGED <<files, messages, all_results, kpi_data>>
    /\ UNCHANGED <<df, filters, filtered_df, refiltered_df, raw_df, normalized_df,
                   renormalized_df, medals_total_df, medallists_df, filtered_medallists,
                   medal_counts, filtered_medals_total, medals_by_country, raw_widgets,
                   called, returned>>
    /\ UNCHANGED <<cache, session_state>>

\* lines 57-60
GlobalSidebar ==
    /\ pc = "global_sidebar"
    /\ \E w \in GlobalWidgets :
          /\ ChangedWidgets(w) <= MaxActive
          /\ w.countries_raw \subseteq
                {"All"} \cup country_options(medals_df, multiselect_value(w.continents_raw))
          /\ raw_widgets' = w
          /\ filters' = create_sidebar_filters(w, EmptyFrame, medals_df)
    /\ pc' = "global_tally"
    /\ UNCHANGED <<files, messages, all_results, kpi_data>>
    /\ UNCHANGED <<df, filtered_df, refiltered_df, raw_df, normalized_df, renormalized_df,
                   medals_total_df, medallists_df, filtered_medallists, medal_counts,
                   filtered_medals_total, medals_df, medals_by_country, called, returned>>
    /\ UNCHANGED <<cache, session_state>>

\* lines 63-87
GlobalTally ==
    /\ pc = "global_tally"
    /\ filtered_df' = apply_filters(medals_df, filters)
    /\ medals_by_country' = global_medals_by_country(apply_filters(medals_df, filters), filters)
    /\ pc' = "global_displayed"
    /\ UNCHANGED <<files, messages, all_results, kpi_data>>
    /\ UNCHANGED <<df, filters, refiltered_df, raw_df, normalized_df, renormalized_df,
                   medals_total_df, medallists_df, filtered_medallists, medal_counts,
                   filtered_medals_total, medals_df, raw_widgets, called, returned>>
    /\ UNCHANGED <<cache, session_state>>

NextGlobal == LoadGlobalData \/ GlobalSidebar \/ GlobalTally

SpecGlobal == InitGlobal /\ [][NextGlobal]_vars

\* both pages of the dashboard
SpecDashboard ==
    (InitOverview \/ InitGlobal) /\ [][NextOverview \/ NextGlobal]_vars

-----------------------------------------------------------------------------
(* Claims about the tally of the Overview page *)

\* the (country_code, discipline, event) of the filtered medallist rows of
\* one country and one medal type: one element per medal won
MedalsWon(country, medal) ==
    {<<Cell(filtered_medallists, filtered_medallists.rows[i], "country_code"),
       Cell(filtered_medallists, filtered_medallists.rows[i], "discipline"),
       Cell(filtered_medallists, filtered_medallists.rows[i], "event")>> :
        i \in {j \in 1..Len(filtered_medallists.rows) :
                  /\ Cell(filtered_medallists, filtered_medallists.rows[j], "country") = country
                  /\ Cell(filtered_medallists, filtered_medallists.rows[j], "medal_type") = medal}}

Recomputed ==
    pc = "displayed" /\ recompute_path(filters) /\ ~empty(filtered_medallists)

C2_ScenarioTally ==
    (Recomputed /\ filtered_medallists = load_medallists_continent(ScenarioTable)) =>
        \E k \in 1..Len(filtered_medals_total.rows) :
            LET t == filtered_medals_total.rows[k]
            IN  /\ Cell(filtered_medals_total, t, "country") = "France"
                /\ Cell(filtered_medals_total, t, "Gold") = 1
                /\ Cell(filtered_medals_total, t, "Silver") = 1
                /\ Cell(filtered_medals_total, t, "Bronze") = 0
                /\ Cell(filtered_medals_total, t, "Total") = 2

-----------------------------------------------------------------------------
(* Claims about the tallies of both pages *)

SumHolds(d, r) ==
    Cell(d, r, "Total") = Cell(d, r, "Gold") + Cell(d, r, "Silver") + Cell(d, r, "Bronze")

TotalIsSum(d) ==
    (d # Raised /\ HasCol(d, "Total")) => \A i \in 1..Len(d.rows) : SumHolds(d, d.rows[i])

\* the table carries a column that normalize_medal_columns takes for Total
CarriesTotal(d) == \E i \in 1..Len(d.cols) : LowerStrip(d.cols[i]) = "total"

\* C3 as stated: every tally row the pipeline produces has
\* Total = Gold + Silver + Bronze: the normalized table (also when the input
\* carried a Total), the filtered table, the recomputed tally of Overview and
\* the tally per country of Global Analysis.
C3_TotalIsSum ==
    /\ pc # "load" => TotalIsSum(medals_total_df)
    /\ TotalIsSum(filtered_medals_total)
    /\ TotalIsSum(medals_by_country)

\* C3 as amended: Total = Gold + Silver + Bronze in every row of the
\* recomputed tally, of the tally of Global Analysis, and of a normalized
\* table whose input carried no Total; when the input carries a Total,
\* normalizing keeps every row with the Total it came with, and filtering
\* the normalized table keeps rows of it unchanged.
C3_TotalIsSumOrGiven ==
    /\ TotalIsSum(medals_by_country)
    /\ (pc = "displayed" /\ recompute_path(filters)) => TotalIsSum(filtered_medals_total)
    /\ (pc \in {"sidebar", "tally", "displayed"} /\ medals_total_df # Raised) =>
          \A i \in 1..Len(medals_total_df.rows) :
             IF CarriesTotal(raw_df)
             THEN SubSeq(medals_total_df.rows[i], 1, Len(raw_df.cols)) \in RowSet(raw_df)
             ELSE SumHolds(medals_total_df, medals_total_df.rows[i])
    /\ (pc = "displayed" /\ ~recompute_path(filters)) =>
          /\ filtered_medals_total.cols = medals_total_df.cols
          /\ RowSet(filtered_medals_total) \subseteq RowSet(medals_total_df)

\* a displayed tally whose Total the normalizer computed
C3_Witness ==
    /\ pc = "displayed" /\ ~recompute_path(filters)
    /\ Len(filtered_medals_total.rows) = 2
    /\ ~CarriesTotal(raw_df)
    /\ Cell(filtered_medals_total, filtered_medals_total.rows[1], "Total") = 2
    /\ Cell(filtered_medals_total, filtered_medals_total.rows[2], "Total") = 1

-----------------------------------------------------------------------------
(* Claims about an empty selection *)

\* the widgets with "All" in every empty multiselect and every medal type
\* checked when none is
Unconstrained(w) ==
    [w EXCEPT !.continents_raw = IF @ = {} THEN {"All"} ELSE @,
              !.countries_raw = IF @ = {} THEN {"All"} ELSE @,
              !.show_gold = IF checked_medal_types(w) = {} THEN TRUE ELSE @,
              !.show_silver = IF checked_medal_types(w) = {} THEN TRUE ELSE @,
              !.show_bronze = IF checked_medal_types(w) = {} THEN TRUE ELSE @]

CountriesOf(t) == {Cell(t, t.rows[i], "country_code") : i \in 1..Len(t.rows)}

\* C8: nothing selected in a dimension means that the dimension does not
\* constrain: the tally of Global Analysis lists the countries it lists when
\* "All" is selected in every empty multiselect and every medal type is
\* checked when none is.
C8_EmptyMeansAll ==
    pc = "global_displayed" =>
        LET f == create_sidebar_filters(Unconstrained(raw_widgets), EmptyFrame, medals_df)
        IN  CountriesOf(medals_by_country)
               = CountriesOf(global_medals_by_country(apply_filters(medals_df, f), f))

-----------------------------------------------------------------------------
(* The functions of utils called on an empty table *)

ComponentFunctions ==
    {"apply_filters", "add_continent_column", "filter_by_continent",
     "normalize_medal_columns", "add_continent_to_dataframe", "calculate_medal_counts",
     "clean_athlete_data"}

KPIFunctions ==
    {"calculate_total_athletes", "calculate_total_countries", "calculate_total_sports",
     "calculate_total_medals", "calculate_total_events"}

\* pd.DataFrame() and the tables of the files with a header and no row
EmptyTables ==
    {[cols |-> c, rows |-> <<>>] :
        c \in {<<>>, RecordCols, AggregatedCols, AthleteCols, <<"name", "gender", "birth_date">>,
               EventCols, MedallistCols, MedalCols, TotalsFileCols, TotalsBareCols}}

\* what the call of a function returns: a table, or the number of a KPI
CallResults(function, d, f) ==
    CASE function = "apply_filters"              -> {apply_filters(d, f)}
      [] function = "add_continent_column"       -> {add_continent_column(d, "country_code")}
      [] function = "filter_by_continent"        -> {filter_by_continent(d, f.continents, "country_code")}
      [] function = "normalize_medal_columns"    -> normalize_medal_columns(d)
      [] function = "add_continent_to_dataframe" -> add_continent_to_dataframe(d)
      [] function = "calculate_medal_counts"     -> calculate_medal_counts(d, "country_code")
      [] function = "clean_athlete_data"         -> {clean_athlete_data(d)}
      [] function = "calculate_total_athletes"   -> {[kpi |-> calculate_total_athletes(d)]}
      [] function = "calculate_total_countries"  -> {[kpi |-> calculate_total_countries(d)]}
      [] function = "calculate_total_sports"     -> {[kpi |-> calculate_total_sports(d, d, f)]}
      [] function = "calculate_total_medals"     -> {[kpi |-> calculate_total_medals(d)]}
      [] function = "calculate_total_events"     -> {[kpi |-> calculate_total_events(d)]}

InitEmpty ==
    /\ pc = "call"
    /\ called \in ComponentFunctions \cup KPIFunctions
    /\ df \in EmptyTables
    /\ filters \in FilterSelections
    /\ returned = EmptyFrame
    /\ filtered_df = EmptyFrame /\ refiltered_df = EmptyFrame
    /\ raw_df = EmptyFrame /\ normalized_df = EmptyFrame /\ renormalized_df = EmptyFrame
    /\ medals_total_df = EmptyFrame /\ medallists_df = EmptyFrame
    /\ filtered_medallists = EmptyFrame /\ medal_counts = <<>>
    /\ filtered_medals_total = EmptyFrame
    /\ medals_df = EmptyFrame /\ medals_by_country = EmptyFrame
    /\ raw_widgets = NoWidgets
    /\ files = <<>> /\ messages = <<>> /\ all_results = <<>> /\ kpi_data = <<>>
    /\ cache = <<>> /\ session_state = <<>>

CallOnEmpty ==
    /\ pc = "call"
    /\ returned' \in CallResults(called, df, filters)
    /\ pc' = "returned"
    /\ UNCHANGED <<files, messages, all_results, kpi_data>>
    /\ UNCHANGED <<df, filters, filtered_df, refiltered_df, raw_df, normalized_df,
                   renormalized_df, medals_total_df, medallists_df, filtered_medallists,
                   medal_counts, filtered_medals_total, medals_df, medals_by_country,
                   raw_widgets, called>>
    /\ UNCHANGED <<cache, session_state>>

NextEmpty == CallOnEmpty

SpecEmpty == InitEmpty /\ [][NextEmpty]_vars

\* C9: given an empty table, every component function returns an empty table
\* and raises no exception, and every KPI function returns 0.
C9_EmptyInEmptyOut ==
    pc = "returned" =>
        IF called \in KPIFunctions
        THEN returned = [kpi |-> 0]
        ELSE returned # Raised /\ empty(returned)

\* the normalizer, which has no early return, called on the header of medals_total.csv
C9_Witness ==
    /\ pc = "returned"
    /\ called = "normalize_medal_columns"
    /\ df = [cols |-> TotalsFileCols, rows |-> <<>>]
    /\ returned = [cols |-> AggregatedCols, rows |-> <<>>]

-----------------------------------------------------------------------------
(* Claims about the age filter and the continent 'Unknown' (SpecFilter) *)

\* C11: with age_range = (min, max) and a table that has an age column,
\* apply_filters keeps a row exactly when min <= age <= max, both ends
\* included: the result is the result for the same selection without the
\* range, less the rows whose age is missing or outside [min, max].
C11_AgeBoundsInclusive ==
    (pc = "applied" /\ filters.age_range # NoAgeRange /\ HasCol(df, "age")) =>
        LET unranged == apply_filters(df, [filters EXCEPT !.age_range = NoAgeRange])
        IN  /\ filtered_df.cols = unranged.cols
            /\ filtered_df.rows =
                  SelectSeq(unranged.rows,
                            LAMBDA r : /\ Cell(unranged, r, "age") # NaNNum
                                       /\ filters.age_range[1] <= Cell(unranged, r, "age")
                                       /\ Cell(unranged, r, "age") <= filters.age_range[2])

\* ages max and max + 1 in the table: the first is kept, the second dropped
C11_Witness ==
    /\ pc = "applied" /\ filters.age_range = <<20, 30>>
    /\ HasCol(df, "age") /\ Len(df.rows) = 2
    /\ Cell(df, df.rows[1], "age") = 30
    /\ Cell(df, df.rows[2], "age") = 31
    /\ filtered_df.rows = <<df.rows[1]>>

\* age min is kept and age min - 1 is dropped
C11_WitnessMin ==
    /\ pc = "applied" /\ filters.age_range = <<20, 30>>
    /\ HasCol(df, "age") /\ Len(df.rows) = 2
    /\ Cell(df, df.rows[1], "age") = 19
    /\ Cell(df, df.rows[2], "age") = 20
    /\ filtered_df.rows = <<df.rows[2]>>

\* country codes the continent table does not hold: an unlisted code, a null, an empty string
UnmappedCodes == {"XYZ", NaN, ""}

\* the rows of d with such a code, cut to the columns of the table passed in
UnmappedRows(d) ==
    LET kept == SelectSeq(d.rows, LAMBDA r : Cell(d, r, "country_code") \in UnmappedCodes)
    IN  [i \in 1..Len(kept) |-> SubSeq(kept[i], 1, Len(df.cols))]

\* C12: a row whose country code is absent from the continent table, null or empty gets
\* the continent 'Unknown' from get_continent and add_continent_column, and apply_filters
\* keeps it (as far as the other filters do) unless the continent filter is active with a
\* selection that does not contain 'Unknown', in which case it drops it.
C12_UnknownContinent ==
    (pc = "applied" /\ HasCol(df, "country_code") /\ ~HasCol(df, "continent")) =>
        LET mapped   == add_continent_column(df, "country_code")
            anywhere == apply_filters(df, [filters EXCEPT !.continents = {"All"}])
            admits   == "All" \in filters.continents \/ "Unknown" \in filters.continents
        IN  /\ \A i \in 1..Len(df.rows) :
                  Cell(df, df.rows[i], "country_code") \in UnmappedCodes =>
                      /\ get_continent(Cell(df, df.rows[i], "country_code")) = "Unknown"
                      /\ Cell(mapped, mapped.rows[i], "continent") = "Unknown"
            /\ UnmappedRows(filtered_df) =
                  IF admits THEN UnmappedRows(anywhere) ELSE <<>>
            /\ HasCol(filtered_df, "continent") =>
                  \A i \in 1..Len(filtered_df.rows) :
                      Cell(filtered_df, filtered_df.rows[i], "country_code") \in UnmappedCodes =>
                          Cell(filtered_df, filtered_df.rows[i], "continent") = "Unknown"

\* a Kenyan row and a row of an unlisted code under the selection {Africa, Unknown}: both kept
C12_Witness ==
    /\ pc = "applied"
    /\ filters.continents = {"Africa", "Unknown"}
    /\ df.cols = AggregatedCols
    /\ df.rows = <<(<<"KEN", "Kenya", 1, 0, 0, 1>>), (<<"XYZ", "XYZ", 1, 0, 0, 1>>)>>
    /\ filtered_df.rows = <<(<<"KEN", "Kenya", 1, 0, 0, 1, "Africa">>),
                            (<<"XYZ", "XYZ", 1, 0, 0, 1, "Unknown">>)>>

\* a French row and a row with a null code under the selection {Europe}: the null code is dropped
C12_WitnessDropped ==
    /\ pc = "applied"
    /\ filters.continents = {"Europe"}
    /\ df.cols = AggregatedCols
    /\ df.rows = <<(<<"FRA", "France", 1, 0, 0, 1>>), (<<NaN, "Refugee Team", 1, 0, 0, 1>>)>>
    /\ filtered_df.rows = <<(<<"FRA", "France", 1, 0, 0, 1, "Europe">>)>>


-----------------------------------------------------------------------------
(* Claims about rows without medals *)

\* C13: for every selection, the output of apply_filters on an aggregated
\* table contains only rows with Total > 0.
C13_NoZeroTotal ==
    (pc = "applied" /\ IsAggregated(df) /\ HasCol(df, "Total")) =>
        \A i \in 1..Len(filtered_df.rows) :
            Cell(filtered_df, filtered_df.rows[i], "Total") > 0


-----------------------------------------------------------------------------
(* utils/data_loader.py: the loaders and what is on disk *)

\* the result tables of data/results/
ResultTables ==
    {[cols |-> <<"participant_country_code", "event_name">>, rows |-> <<<<c, "Final">>>>] :
        c \in {"FRA", "KEN"}}
    \cup {[cols |-> <<"event_name">>, rows |-> <<<<"Final">>>>]}

SportNames == {"Rowing", "judo "}

\* a file is absent, or pandas cannot parse it, or it holds a table
FileStates(tables) ==
    {[state |-> "missing", table |-> EmptyFrame], [state |-> "unparseable", table |-> EmptyFrame]}
    \cup {[state |-> "ok", table |-> t] : t \in tables}

\* pd.read_csv: the table, or the exception it raises
read_csv(file) ==
    CASE file.state = "missing"     -> [raises |-> "FileNotFoundError", value |-> EmptyFrame]
      [] file.state = "unparseable" -> [raises |-> "ParserError", value |-> EmptyFrame]
      [] OTHER                      -> [raises |-> "", value |-> file.table]

\* the try block of a loader without the handler for Exception
try_read_csv_no_except(file, what) ==
    LET r == read_csv(file)
    IN  CASE r.raises = "" -> [raises |-> FALSE, value |-> r.value, messages |-> {}]
          [] r.raises = "FileNotFoundError" ->
                [raises |-> FALSE, value |-> EmptyFrame,
                 messages |-> {<<"warning", what \o " file not found">>}]
          [] OTHER -> [raises |-> TRUE, value |-> EmptyFrame, messages |-> {}]

\* try: read_csv / except FileNotFoundError: st.warning / except Exception: st.error
try_read_csv(file, what) ==
    LET r == read_csv(file)
    IN  CASE r.raises = "" -> [raises |-> FALSE, value |-> r.value, messages |-> {}]
          [] r.raises = "FileNotFoundError" ->
                [raises |-> FALSE, value |-> EmptyFrame,
                 messages |-> {<<"warning", what \o " file not found">>}]
          [] OTHER ->
                [raises |-> FALSE, value |-> EmptyFrame,
                 messages |-> {<<"error", "Error loading " \o what>>}]

load_athletes(fs) == try_read_csv(fs.data["athletes"], "athletes")

load_medallists(fs) == try_read_csv(fs.data["medallists"], "medallists")

load_sport_results(fs, sport_name) == try_read_csv(fs.results[sport_name], sport_name)

\* glob("*.csv") lists the files that exist; a file that cannot be read is
\* reported and left out of the dict
load_all_sport_results(fs) ==
    IF ~fs.results_dir
    THEN [raises |-> FALSE, value |-> <<>>,
          messages |-> {<<"warning", "Results directory not found">>}]
    ELSE
      LET globbed == {s \in DOMAIN fs.results : fs.results[s].state # "missing"}
          loaded  == {s \in globbed : read_csv(fs.results[s]).raises = ""}
      IN  [raises |-> FALSE,
           value |-> [s \in loaded |-> read_csv(fs.results[s]).value],
           messages |-> {<<"warning", "Could not load " \o s>> : s \in globbed \ loaded}]

-----------------------------------------------------------------------------
(* A loader is called on what is on disk *)

InitLoad ==
    /\ pc = "load_call"
    /\ \E data \in [{"athletes", "medallists"} ->
                       FileStates({[cols |-> AthleteCols, rows |-> <<>>], ScenarioTable})],
          results_dir \in BOOLEAN,
          results \in [SportNames -> FileStates(ResultTables)] :
          /\ ~results_dir => \A s \in SportNames : results[s].state = "missing"
          /\ files = [data |-> data, results_dir |-> results_dir, results |-> results]
    /\ called \in {<<"load_athletes">>, <<"load_medallists">>}
                  \cup {<<"load_sport_results", s>> : s \in SportNames}
                  \cup {<<"load_all_sport_results">>}
    /\ messages = {} /\ all_results = <<>> /\ kpi_data = <<>>
    /\ returned = EmptyFrame
    /\ df = EmptyFrame /\ filters = DefaultFilters /\ raw_widgets = NoWidgets
    /\ filtered_df = EmptyFrame /\ refiltered_df = EmptyFrame
    /\ raw_df = EmptyFrame /\ normalized_df = EmptyFrame /\ renormalized_df = EmptyFrame
    /\ medals_total_df = EmptyFrame /\ medallists_df = EmptyFrame
    /\ filtered_medallists = EmptyFrame /\ medal_counts = <<>>
    /\ filtered_medals_total = EmptyFrame
    /\ medals_df = EmptyFrame /\ medals_by_country = EmptyFrame
    /\ cache = <<>> /\ session_state = <<>>

\* lines 11-268: a loader of one data file
CallLoader ==
    /\ pc = "load_call"
    /\ called[1] \in {"load_athletes", "load_medallists"}
    /\ LET out == IF called[1] = "load_athletes" THEN load_athletes(files)
                  ELSE load_medallists(files)
       IN  /\ returned' = IF out.raises THEN Raised ELSE out.value
           /\ messages' = out.messages
    /\ pc' = "loaded"
    /\ UNCHANGED <<df, filters, filtered_df, refiltered_df, raw_df, normalized_df,
                   renormalized_df, medals_total_df, medallists_df, filtered_medallists,
                   medal_counts, filtered_medals_total, medals_df, medals_by_country,
                   raw_widgets, called, files, all_results, kpi_data>>
    /\ UNCHANGED <<cache, session_state>>

\* lines 271-294
CallLoadSportResults ==
    /\ pc = "load_call"
    /\ called[1] = "load_sport_results"
    /\ LET out == load_sport_results(files, called[2])
       IN  /\ returned' = IF out.raises THEN Raised ELSE out.value
           /\ messages' = out.messages
    /\ pc' = "loaded"
    /\ UNCHANGED <<df, filters, filtered_df, refiltered_df, raw_df, normalized_df,
                   renormalized_df, medals_total_df, medallists_df, filtered_medallists,
                   medal_counts, filtered_medals_total, medals_df, medals_by_country,
                   raw_widgets, called, files, all_results, kpi_data>>
    /\ UNCHANGED <<cache, session_state>>

\* lines 297-325
CallLoadAllSportResults ==
    /\ pc = "load_call"
    /\ called[1] = "load_all_sport_results"
    /\ LET out == load_all_sport_results(files)
       IN  /\ returned' = IF out.raises THEN Raised ELSE EmptyFrame
           /\ all_results' = out.value
           /\ messages' = out.messages
    /\ pc' = "loaded"
    /\ UNCHANGED <<df, filters, filtered_df, refiltered_df, raw_df, normalized_df,
                   renormalized_df, medals_total_df, medallists_df, filtered_medallists,
                   medal_counts, filtered_medals_total, medals_df, medals_by_country,
                   raw_widgets, called, files, kpi_data>>
    /\ UNCHANGED <<cache, session_state>>

NextLoad == CallLoader \/ CallLoadSportResults \/ CallLoadAllSportResults

SpecLoad == InitLoad /\ [][NextLoad]_vars

\* the file a single-file loader reads
FileRead ==
    CASE called[1] = "load_athletes"      -> files.data["athletes"]
      [] called[1] = "load_medallists"    -> files.data["medallists"]
      [] called[1] = "load_sport_results" -> files.results[called[2]]

\* C14: a loader never raises; when its file is missing or cannot be parsed it
\* returns an empty table and emits a warning or an error message, and
\* load_all_sport_results leaves an unreadable sport file out, reports it, and
\* returns every sport whose file loaded.
C14_LoadersFailSoft ==
    pc = "loaded" =>
        /\ returned # Raised
        /\ called[1] # "load_all_sport_results" =>
              IF FileRead.state = "ok"
              THEN returned = FileRead.table /\ messages = {}
              ELSE /\ returned = EmptyFrame
                   /\ \E m \in messages : m[1] \in {"warning", "error"}
        /\ called[1] = "load_all_sport_results" =>
              /\ DOMAIN all_results = {s \in SportNames : files.results[s].state = "ok"}
              /\ \A s \in DOMAIN all_results : all_results[s] = files.results[s].table
              /\ \A s \in SportNames :
                    files.results[s].state = "unparseable" =>
                        \E m \in messages : m = <<"warning", "Could not load " \o s>>

\* one sport file cannot be parsed and the other loads
C14_Witness ==
    /\ pc = "loaded"
    /\ called = <<"load_all_sport_results">>
    /\ files.results["Rowing"].state = "unparseable"
    /\ files.results["judo "].state = "ok"
    /\ DOMAIN all_results = {"judo "}
    /\ messages = {<<"warning", "Could not load Rowing">>}

\* the athletes file cannot be parsed
C14_WitnessUnparseable ==
    /\ pc = "loaded"
    /\ called = <<"load_athletes">>
    /\ files.data["athletes"].state = "unparseable"
    /\ returned = EmptyFrame
    /\ messages = {<<"error", "Error loading athletes">>}


-----------------------------------------------------------------------------
(* What a transform does to the object it is passed: the statements it
   runs on the table bound to its local name, in program order.  "copy" and
   "rebind" bind the name to a new object (df.copy(), df = df.rename(...),
   filtered_df = filtered_df[mask]); "write" assigns a column of the object
   the name is bound to (df[col] = ...). *)

\* a column is assigned while the name is still bound to the argument
Mutates(statements) ==
    \E i \in 1..Len(statements) :
        /\ statements[i] = "write"
        /\ \A j \in 1..(i - 1) : statements[j] \notin {"copy", "rebind"}

\* add_continent_column without line 71
add_continent_column_statements_no_copy(d, country_column) ==
    IF empty(d) THEN <<>>
    ELSE IF HasCol(d, "continent") THEN <<>>
    ELSE
      LET actual_country_col ==
              IF HasCol(d, country_column) THEN country_column
              ELSE FirstCol(d, <<"country_code", "code", "noc", "NOC", "Country Code">>)
      IN  IF actual_country_col = NoCol THEN <<>> ELSE <<"write">>

\* continent_mapper.py lines 67-68 (return), 71 (copy), 110 (df['continent'] = ...)
add_continent_column_statements(d, country_column) ==
    IF empty(d) THEN <<>>
    ELSE IF HasCol(d, "continent") THEN <<"copy">>
    ELSE
      LET actual_country_col ==
              IF HasCol(d, country_column) THEN country_column
              ELSE FirstCol(d, <<"country_code", "code", "noc", "NOC", "Country Code">>)
      IN  IF actual_country_col = NoCol THEN <<"copy">> ELSE <<"copy", "write">>

\* filters.py lines 236-237 (return), 239 (copy), 245 (the call of
\* add_continent_column on the copy, then a rebind), 262-300 (rebinds)
apply_filters_statements(d, f) ==
    IF empty(d) THEN <<>>
    ELSE <<"copy">>
         \o (IF "All" \notin f.continents /\ ~HasCol(d, "continent")
             THEN (IF Mutates(add_continent_column_statements(d, "country_code"))
                   THEN <<"write">> ELSE <<>>) \o <<"rebind">>
             ELSE <<>>)
         \o <<"rebind">>

\* data_processor.py lines 96 (copy), 119 (rename), 123 (df['Total'] = ...), 127 (sort)
normalize_medal_columns_statements(d) ==
    <<"copy", "rebind">>
    \o (LET r == rename(d, column_mapping(d.cols, <<>>))
        IN  IF ~HasCol(r, "Total") /\ HasCol(r, "Gold") /\ HasCol(r, "Silver")
               /\ HasCol(r, "Bronze")
            THEN <<"write">> ELSE <<>>)
    \o <<"rebind">>

\* data_processor.py lines 24 (copy), 27 (drop_duplicates), 31, 35, 40 (column writes)
clean_athlete_data_statements(d) ==
    <<"copy", "rebind">>
    \o (IF HasCol(d, "birth_date") THEN <<"write">> ELSE <<>>)
    \o (IF HasCol(d, "gender") THEN <<"write">> ELSE <<>>)
    \o (IF HasCol(d, "birth_date") THEN <<"write">> ELSE <<>>)

transform_statements(function, d, f) ==
    CASE function = "apply_filters"           -> apply_filters_statements(d, f)
      [] function = "add_continent_column"    -> add_continent_column_statements(d, "country_code")
      [] function = "normalize_medal_columns" -> normalize_medal_columns_statements(d)
      [] function = "clean_athlete_data"      -> clean_athlete_data_statements(d)

\* athletes with a birth date
BirthCols == <<"name", "gender", "birth_date">>

BirthRows ==
    {<<"A", g, b>> : g \in {"Male", " female "},
                     b \in {"2004-07-26", "1994-07-27", "1924-08-19", "1923-08-20",
                            "2024-01-01", "2026-01-01", NaN}}

-----------------------------------------------------------------------------
(* A transform is called on a table the caller keeps *)

InitTransform ==
    /\ pc = "transform"
    /\ called \in {"apply_filters", "add_continent_column", "normalize_medal_columns",
                  "clean_athlete_data"}
    /\ \/ /\ called = "apply_filters"
          /\ df \in Tables(RecordCols, RecordRows, MaxRows)
                    \cup Tables(AggregatedCols, AggregatedRows, MaxRows)
          /\ filters \in {f \in AllSelections : ActiveDims(f) <= 1}
       \/ /\ called = "add_continent_column"
          /\ df \in Tables(AggregatedCols, AggregatedRows, MaxRows)
                    \cup Tables(EventCols, EventRows, MaxRows)
          /\ filters = DefaultFilters
       \/ /\ called = "normalize_medal_columns"
          /\ df \in OverviewTotals
          /\ filters = DefaultFilters
       \/ /\ called = "clean_athlete_data"
          /\ df \in Tables(BirthCols, BirthRows, MaxRows)
          /\ filters = DefaultFilters
    /\ raw_df = df
    /\ returned = EmptyFrame
    /\ filtered_df = EmptyFrame /\ refiltered_df = EmptyFrame
    /\ normalized_df = EmptyFrame /\ renormalized_df = EmptyFrame
    /\ medals_total_df = EmptyFrame /\ medallists_df = EmptyFrame
    /\ filtered_medallists = EmptyFrame /\ medal_counts = <<>>
    /\ filtered_medals_total = EmptyFrame
    /\ medals_df = EmptyFrame /\ medals_by_country = EmptyFrame
    /\ raw_widgets = NoWidgets
    /\ files = <<>> /\ messages = <<>> /\ all_results = <<>> /\ kpi_data = <<>>
    /\ cache = <<>> /\ session_state = <<>>

\* the call: what it returns, and the caller's table after it
CallTransform ==
    /\ pc = "transform"
    /\ \E r \in CallResults(called, df, filters) :
          /\ returned' = r
          /\ df' = IF Mutates(transform_statements(called, df, filters)) THEN r ELSE df
    /\ pc' = "transformed"
    /\ UNCHANGED <<filters, filtered_df, refiltered_df, raw_df, normalized_df,
                   renormalized_df, medals_total_df, medallists_df, filtered_medallists,
                   medal_counts, filtered_medals_total, medals_df, medals_by_country,
                   raw_widgets, called, files, messages, all_results, kpi_data>>
    /\ UNCHANGED <<cache, session_state>>

NextTransform == CallTransform

SpecTransform == InitTransform /\ [][NextTransform]_vars

\* C15: after apply_filters, add_continent_column, normalize_medal_columns or
\* clean_athlete_data returns, the table that was passed in has the columns,
\* rows and values it had before the call.
C15_InputUntouched == pc = "transformed" => df = raw_df

\* add_continent_column has added the column to what it returns, not to its argument
C15_Witness ==
    /\ pc = "transformed"
    /\ called = "add_continent_column"
    /\ df.cols = AggregatedCols
    /\ Len(df.rows) = 2
    /\ returned.cols = Append(AggregatedCols, "continent")


-----------------------------------------------------------------------------
(* Claims about the shape of the recomputed tally and the KPI cards *)

\* C16: every row of the recomputed tally carries country, country_code,
\* continent, Gold, Silver, Bronze and Total, its continent is the one mapped
\* from its country code, and the rows are in descending order of Total.
C16_CanonicalShape ==
    (Recomputed /\ filtered_medals_total # Raised) =>
        /\ \A c \in {"country", "country_code", "continent", "Gold", "Silver", "Bronze", "Total"} :
              HasCol(filtered_medals_total, c)
        /\ \A i \in 1..Len(filtered_medals_total.rows) :
              Cell(filtered_medals_total, filtered_medals_total.rows[i], "continent") =
                  get_continent(Cell(filtered_medals_total, filtered_medals_total.rows[i],
                                     "country_code"))
        /\ \A i \in 1..(Len(filtered_medals_total.rows) - 1) :
              Cell(filtered_medals_total, filtered_medals_total.rows[i], "Total") >=
                  Cell(filtered_medals_total, filtered_medals_total.rows[i + 1], "Total")


\* the sum of the cells of the columns cs over the rows of the displayed tally
TallySum(cs) ==
    SumSeq([i \in 1..Len(filtered_medals_total.rows) |->
               SumSeq([j \in 1..Len(cs) |->
                          Cell(filtered_medals_total, filtered_medals_total.rows[i], cs[j])])])

\* C17: the total_medals KPI is the sum of Total over the filtered tally when
\* all three medal types are selected, and the sum of the selected medal-type
\* columns only when the selection is a proper subset of Gold, Silver, Bronze.
C17_TotalMedalsKPI ==
    (pc = "kpis" /\ ~empty(filtered_medals_total)) =>
        IF filters.medal_types = MEDAL_TYPES
        THEN kpi_data.total_medals = TallySum(<<"Total">>)
        ELSE kpi_data.total_medals =
                 TallySum(SelectSeq(<<"Gold", "Silver", "Bronze">>,
                                    LAMBDA m : m \in filters.medal_types))


\* the column of the displayed tally that identifies the country
TallyCountryCol ==
    IF HasCol(filtered_medals_total, "country_code") THEN "country_code" ELSE "country"

\* C18: the total_countries KPI is the number of distinct country codes among
\* the rows of the filtered tally that have Total > 0.
C18_TotalCountriesKPI ==
    (pc = "kpis" /\ ~empty(filtered_medals_total)) =>
        kpi_data.total_countries =
            Cardinality({Cell(filtered_medals_total, filtered_medals_total.rows[i], TallyCountryCol) :
                            i \in {j \in 1..Len(filtered_medals_total.rows) :
                                      Cell(filtered_medals_total, filtered_medals_total.rows[j],
                                           "Total") > 0}})


-----------------------------------------------------------------------------
(* Overview.py with result files on disk: the sports KPI *)

\* medallists whose disciplines are also sports of data/results
SportMedallistRows ==
    {MedallistRow("FRA", "Gold Medal", <<"Rowing", "Men's Four">>, "A"),
     MedallistRow("FRA", "Silver Medal", <<"Judo", "Men's -60kg">>, "C"),
     MedallistRow("KEN", "Gold Medal", <<"Rowing", "Women's Four">>, "A"),
     MedallistRow("KEN", "Bronze Medal", <<"Archery", "Men's Team">>, "A")}

InitSports ==
    /\ pc = "load"
    /\ medallists_df \in Tables(MedallistCols, SportMedallistRows, MaxRows)
    /\ raw_df = OneTotalsFile
    /\ medals_total_df = raw_df
    /\ all_results \in UNION {[S -> ResultTables \cup {EmptyFrame}] : S \in SUBSET SportNames}
    /\ df = EmptyFrame
    /\ filters = DefaultFilters /\ raw_widgets = NoWidgets
    /\ filtered_df = EmptyFrame /\ refiltered_df = EmptyFrame
    /\ normalized_df = EmptyFrame /\ renormalized_df = EmptyFrame
    /\ filtered_medallists = EmptyFrame /\ medal_counts = <<>>
    /\ filtered_medals_total = EmptyFrame
    /\ medals_df = EmptyFrame /\ medals_by_country = EmptyFrame
    /\ called = "" /\ returned = EmptyFrame
    /\ files = <<>> /\ messages = <<>> /\ kpi_data = <<>>
    /\ cache = <<>> /\ session_state = <<>>

SpecSports == InitSports /\ [][NextOverview]_vars

\* a medallist row of a selected continent, country and gender
SelectedMedallist(r) ==
    /\ "All" \in filters.continents
       \/ get_continent(Cell(medallists_df, r, "country_code")) \in filters.continents
    /\ "All" \in filters.countries \/ Cell(medallists_df, r, "country") \in filters.countries
    /\ filters.gender = "All"
       \/ StripTitle(Cell(medallists_df, r, "gender")) = filters.gender

\* a country code of a selected country
SelectedCode(code) ==
    IF "All" \notin filters.countries THEN CountryName(code) \in filters.countries
    ELSE IF "All" \notin filters.continents THEN get_continent(code) \in filters.continents
    ELSE TRUE

\* (a) the disciplines of the selected medallist rows
MedalSports ==
    {Cell(medallists_df, medallists_df.rows[i], "discipline") :
        i \in {j \in 1..Len(medallists_df.rows) : SelectedMedallist(medallists_df.rows[j])}}

\* (b) the result tables with a participant of a selected country
ResultSports ==
    {s \in DOMAIN all_results :
        /\ HasCol(all_results[s], "participant_country_code")
        /\ \E i \in 1..Len(all_results[s].rows) :
              SelectedCode(Cell(all_results[s], all_results[s].rows[i],
                                "participant_country_code"))}

-----------------------------------------------------------------------------
(* The age of an athlete: clean_athlete_data and the loaders of the pages
   Athlete Performance, Advanced Analytics and Country Comparison *)

\* df['age'] = (olympics_date - df['birth_date']).dt.days // 365
assign_age(d) ==
    IF HasCol(d, "age")
    THEN [d EXCEPT !.rows = [i \in 1..Len(d.rows) |->
              [d.rows[i] EXCEPT ![ColIdx(d, "age")] = AgeOf(Cell(d, d.rows[i], "birth_date"))]]]
    ELSE [cols |-> Append(d.cols, "age"),
          rows |-> [i \in 1..Len(d.rows) |->
                      Append(d.rows[i], AgeOf(Cell(d, d.rows[i], "birth_date")))]]

\* pages/3_Athlete_Performance.py lines 104-124: the athletes it returns
load_athlete_data(athletes_df) ==
    LET aged == IF ~empty(athletes_df) /\ HasCol(athletes_df, "birth_date")
                THEN LET a == assign_age(athletes_df)
                     IN  [a EXCEPT !.rows = [i \in 1..Len(a.rows) |->
                              [a.rows[i] EXCEPT ![ColIdx(a, "age")] =
                                  IF @ # NaNNum /\ (@ <= 0 \/ @ > 100) THEN NaNNum ELSE @]]]
                ELSE athletes_df
    IN  IF ~empty(aged) /\ HasCol(aged, "country_code")
        THEN add_continent_column(aged, "country_code") ELSE aged

\* pages/5_Advanced_Analytics.py lines 43-63: the athletes it returns
load_analytics_data(athletes_df) ==
    LET aged == IF ~empty(athletes_df) /\ HasCol(athletes_df, "birth_date")
                THEN assign_age(athletes_df) ELSE athletes_df
    IN  IF ~empty(aged) /\ HasCol(aged, "country_code")
        THEN add_continent_column(aged, "country_code") ELSE aged

\* pages/6_Country_Comparison.py lines 43-58: the athletes it returns
load_comparison_data(athletes_df) ==
    LET aged == IF ~empty(athletes_df) /\ HasCol(athletes_df, "birth_date")
                THEN assign_age(athletes_df) ELSE athletes_df
    IN  IF ~empty(aged) /\ HasCol(aged, "country_code")
        THEN add_continent_column(aged, "country_code") ELSE aged

InitAge ==
    /\ pc = "derive_age"
    /\ called \in {"clean_athlete_data", "load_athlete_data", "load_analytics_data",
                  "load_comparison_data"}
    /\ df \in Tables(BirthCols, BirthRows, MaxRows)
    /\ filters = DefaultFilters /\ raw_widgets = NoWidgets
    /\ returned = EmptyFrame
    /\ filtered_df = EmptyFrame /\ refiltered_df = EmptyFrame
    /\ raw_df = EmptyFrame /\ normalized_df = EmptyFrame /\ renormalized_df = EmptyFrame
    /\ medals_total_df = EmptyFrame /\ medallists_df = EmptyFrame
    /\ filtered_medallists = EmptyFrame /\ medal_counts = <<>>
    /\ filtered_medals_total = EmptyFrame
    /\ medals_df = EmptyFrame /\ medals_by_country = EmptyFrame
    /\ files = <<>> /\ messages = <<>> /\ all_results = <<>> /\ kpi_data = <<>>
    /\ cache = <<>> /\ session_state = <<>>

\* the athletes table is prepared by the function called
DeriveAge ==
    /\ pc = "derive_age"
    /\ returned' = CASE called = "clean_athlete_data"   -> clean_athlete_data(df)
                     [] called = "load_athlete_data"    -> load_athlete_data(df)
                     [] called = "load_analytics_data"  -> load_analytics_data(df)
                     [] called = "load_comparison_data" -> load_comparison_data(df)
    /\ pc' = "aged"
    /\ UNCHANGED <<df, filters, filtered_df, refiltered_df, raw_df, normalized_df,
                   renormalized_df, medals_total_df, medallists_df, filtered_medallists,
                   medal_counts, filtered_medals_total, medals_df, medals_by_country,
                   raw_widgets, called, files, messages, all_results, kpi_data>>
    /\ UNCHANGED <<cache, session_state>>

NextAge == DeriveAge

SpecAge == InitAge /\ [][NextAge]_vars

\* C20: wherever the age is derived from birth_date, it is the number of days
\* from birth_date to 2024-07-26 divided by 365 and rounded down, and it is
\* null when birth_date is missing or when that number is <= 0 or > 100.
C20_AgeDerivation ==
    (pc = "aged" /\ ~empty(returned)) =>
        \A i \in 1..Len(returned.rows) :
            LET birth_date == Cell(returned, returned.rows[i], "birth_date")
                age        == Cell(returned, returned.rows[i], "age")
            IN  IF birth_date \notin ParsedDates THEN age = NaNNum
                ELSE IF DaysBefore(birth_date) \div 365 <= 0
                        \/ DaysBefore(birth_date) \div 365 > 100 THEN age = NaNNum
                ELSE age = DaysBefore(birth_date) \div 365


-----------------------------------------------------------------------------
(* Claims about the medal filter on aggregated tables *)

\* C21: on a table with Gold, Silver and Bronze columns apply_filters keeps a
\* row exactly when the sum of its selected medal-type columns is > 0, and
\* every kept row has the Gold, Silver, Bronze and Total values it came with.
C21_AggregatedMedalFilter ==
    (pc = "applied" /\ IsAggregated(df) /\ OnlyActive(filters, {"medal_types"})) =>
        /\ filtered_df.cols = df.cols
        /\ filtered_df.rows =
              SelectSeq(df.rows,
                        LAMBDA r : (IF "Gold" \in filters.medal_types THEN Cell(df, r, "Gold") ELSE 0)
                                   + (IF "Silver" \in filters.medal_types THEN Cell(df, r, "Silver") ELSE 0)
                                   + (IF "Bronze" \in filters.medal_types THEN Cell(df, r, "Bronze") ELSE 0)
                                   > 0)


-----------------------------------------------------------------------------
(* Claims about the path the Overview tally is taken from *)

\* C22: the Overview tally is recomputed from the filtered medallists exactly
\* when the gender filter is not 'All' or an age range is set; otherwise it is
\* the pre-aggregated medals_total table passed through apply_filters, and the
\* medallist rows play no part in it.
C22_TallySource ==
    (pc = "displayed" /\ filtered_medals_total # Raised) =>
        IF filters.gender # "All" \/ filters.age_range # NoAgeRange
        THEN filtered_medals_total \in
                 recomputed_tally(IF ~empty(medallists_df)
                                  THEN apply_filters(medallists_df, filters)
                                  ELSE medallists_df)
        ELSE filtered_medals_total =
                 IF ~empty(medals_total_df) THEN apply_filters(medals_total_df, filters)
                 ELSE medals_total_df

\* gender 'All' and the age slider at its range: the tally is built on the
\* country names of the medallists, not taken from medals_total
C22_Witness ==
    /\ pc = "displayed"
    /\ filters.gender = "All" /\ filters.age_range = <<19, 31>>
    /\ ~empty(medals_total_df)
    /\ ~empty(filtered_medals_total)
    /\ ~HasCol(filtered_medals_total, "country_code")
    /\ filtered_medals_total # apply_filters(medals_total_df, filters)


-----------------------------------------------------------------------------
(* The loaders under @st.cache_data, over render cycles of one process *)

LoaderCalls ==
    {<<"load_athletes">>, <<"load_medallists">>, <<"load_all_sport_results">>}
    \cup {<<"load_sport_results", s>> : s \in SportNames}

\* the body of the loader a call names
loader_call(fs, call) ==
    CASE call[1] = "load_athletes"      -> load_athletes(fs)
      [] call[1] = "load_medallists"    -> load_medallists(fs)
      [] call[1] = "load_sport_results" -> load_sport_results(fs, call[2])
      [] OTHER                          -> load_all_sport_results(fs)

\* what can be on disk: the files are created, rewritten and removed
DiskStates ==
    {fs \in
        {[data |-> [athletes |-> a, medallists |-> m], results_dir |-> d,
          results |-> [s \in SportNames |->
                          IF s = "Rowing" THEN r
                          ELSE [state |-> "missing", table |-> EmptyFrame]]] :
            a \in {f \in FileStates({[cols |-> AthleteCols, rows |-> <<>>], ScenarioTable}) :
                      f.state # "unparseable"},
            m \in {f \in FileStates({ScenarioTable}) : f.state # "unparseable"},
            d \in BOOLEAN,
            r \in FileStates({t \in ResultTables : Len(t.cols) = 2})} :
        ~fs.results_dir => fs.results["Rowing"].state = "missing"}

\* @st.cache_data never runs the function for a call it has a value for
cache_hit_never(c, call) == FALSE

\* @st.cache_data: the call was made before in this process
cache_hit(c, call) == call \in DOMAIN c

InitCache ==
    /\ pc = "script"
    /\ files \in DiskStates
    /\ cache = <<>>
    /\ session_state = <<>>
    /\ called = <<>>
    /\ messages = {} /\ all_results = <<>> /\ kpi_data = <<>>
    /\ returned = EmptyFrame
    /\ df = EmptyFrame /\ filters = DefaultFilters /\ raw_widgets = NoWidgets
    /\ filtered_df = EmptyFrame /\ refiltered_df = EmptyFrame
    /\ raw_df = EmptyFrame /\ normalized_df = EmptyFrame /\ renormalized_df = EmptyFrame
    /\ medals_total_df = EmptyFrame /\ medallists_df = EmptyFrame
    /\ filtered_medallists = EmptyFrame /\ medal_counts = <<>>
    /\ filtered_medals_total = EmptyFrame
    /\ medals_df = EmptyFrame /\ medals_by_country = EmptyFrame

\* a call of a decorated loader: the stored value and its replayed messages,
\* or the loader's body run on what is on disk and its outcome stored
CachedCall ==
    /\ pc = "script"
    /\ \E call \in LoaderCalls :
          LET out == IF cache_hit(cache, call) THEN cache[call]
                     ELSE loader_call(files, call)
          IN  /\ called' = call
              /\ ~out.raises
              /\ cache' = [c \in DOMAIN cache \cup {call} |->
                              IF c = call THEN out ELSE cache[c]]
              /\ messages' = out.messages
              /\ IF call[1] = "load_all_sport_results"
                 THEN all_results' = out.value /\ returned' = EmptyFrame
                 ELSE returned' = out.value /\ UNCHANGED all_results
    /\ pc' = "loaded"
    /\ UNCHANGED <<df, filters, filtered_df, refiltered_df, raw_df, normalized_df,
                   renormalized_df, medals_total_df, medallists_df, filtered_medallists,
                   medal_counts, filtered_medals_total, medals_df, medals_by_country,
                   raw_widgets, files, kpi_data, session_state>>

\* the script goes on to its next call, in this render cycle or a later one
Rerun ==
    /\ pc = "loaded"
    /\ pc' = "script"
    /\ UNCHANGED <<df, filters, filtered_df, refiltered_df, raw_df, normalized_df,
                   renormalized_df, medals_total_df, medallists_df, filtered_medallists,
                   medal_counts, filtered_medals_total, medals_df, medals_by_country,
                   raw_widgets, called, returned, files, messages, all_results,
                   kpi_data, cache, session_state>>

\* between two calls the data directory is changed from outside
ChangeFiles ==
    /\ pc = "script"
    /\ files' \in DiskStates \ {files}
    /\ UNCHANGED <<pc, df, filters, filtered_df, refiltered_df, raw_df, normalized_df,
                   renormalized_df, medals_total_df, medallists_df, filtered_medallists,
                   medal_counts, filtered_medals_total, medals_df, medals_by_country,
                   raw_widgets, called, returned, messages, all_results,
                   kpi_data, cache, session_state>>

NextCache == CachedCall \/ Rerun \/ ChangeFiles

SpecCache == InitCache /\ [][NextCache]_vars

\* C23: a loader reads its file at most once per process: once a call has
\* returned, every later call of it returns the table of the first call
\* (the file's data or the empty fallback), whatever happens to the file.
C23_LoadedOnce ==
    [][\A call \in DOMAIN cache :
          /\ call \in DOMAIN cache' /\ cache'[call] = cache[call]
          /\ (pc' = "loaded" /\ called' = call) =>
                IF call[1] = "load_all_sport_results"
                THEN all_results' = cache[call].value
                ELSE returned' = cache[call].value]_vars

\* load_athletes returned the fallback of a missing file, the file was then
\* created, and a later call returned the fallback again
C23_Witness ==
    /\ pc = "loaded"
    /\ called = <<"load_athletes">>
    /\ files.data.athletes.state = "ok" /\ files.data.athletes.table = ScenarioTable
    /\ returned = EmptyFrame
    /\ \E m \in messages : m[1] = "warning"


-----------------------------------------------------------------------------
(* The sidebar over the render cycles of one browser session *)

MaxResets == 2

\* a keyed widget returns the value the session holds under its key, or its
\* default when the key is new
widget(ss, key, default) == IF key \in DOMAIN ss THEN ss[key] ELSE default

\* line 39 without the counter: the keys never change
key_suffix_fixed(ss) == 0

\* line 39: key_suffix = f"_{st.session_state.filter_reset_counter}"
key_suffix(ss) == ss[<<"filter_reset_counter">>]

\* lines 186-192: value=(min_age, max_age) of the ages present
age_slider_default(athletes) ==
    IF ~slider_shown(athletes) THEN NoAgeRange
    ELSE LET ages == {Cell(athletes, athletes.rows[i], "age") : i \in 1..Len(athletes.rows)}
                     \ {NaNNum}
         IN  <<CHOOSE a \in ages : \A b \in ages : a <= b,
               CHOOSE a \in ages : \A b \in ages : a >= b>>

\* lines 102-151: the sport selector is drawn over the sports of events_df, or
\* over a sport column of medals_df when there are no events
sport_selector_shown(medals, events, show_sport) ==
    /\ show_sport
    /\ \/ ~empty(events)
       \/ /\ ~empty(medals)
          /\ FirstCol(medals, <<"sport", "Sport", "discipline", "Discipline">>) # NoCol

\* the widgets one run of create_sidebar_filters draws
drawn_widgets(athletes, medals, events, show_sport) ==
    {"continent_filter", "gold_cb", "silver_cb", "bronze_cb", "gender_filter"}
    \cup (IF ~empty(medals) THEN {"country_filter"} ELSE {})
    \cup (IF sport_selector_shown(medals, events, show_sport) THEN {"sport_filter"} ELSE {})
    \cup (IF slider_shown(athletes) THEN {"age_filter"} ELSE {})

\* what the widgets return in a run: each is keyed by its name and key_suffix
widget_values(ss, athletes) ==
    LET n == key_suffix(ss)
    IN  [continents_raw |-> widget(ss, <<"continent_filter", n>>, {"All"}),
         countries_raw  |-> widget(ss, <<"country_filter", n>>, {"All"}),
         sports_raw     |-> widget(ss, <<"sport_filter", n>>, {"All"}),
         show_gold      |-> widget(ss, <<"gold_cb", n>>, TRUE),
         show_silver    |-> widget(ss, <<"silver_cb", n>>, TRUE),
         show_bronze    |-> widget(ss, <<"bronze_cb", n>>, TRUE),
         gender         |-> widget(ss, <<"gender_filter", n>>, "All"),
         age_range      |-> widget(ss, <<"age_filter", n>>, age_slider_default(athletes))]

WidgetField(name) ==
    CASE name = "continent_filter" -> "continents_raw"
      [] name = "country_filter"   -> "countries_raw"
      [] name = "sport_filter"     -> "sports_raw"
      [] name = "gold_cb"          -> "show_gold"
      [] name = "silver_cb"        -> "show_silver"
      [] name = "bronze_cb"        -> "show_bronze"
      [] name = "gender_filter"    -> "gender"
      [] name = "age_filter"       -> "age_range"

\* the session after a run: the drawn widgets hold their values under the
\* keys of this run, and the state of widgets no longer drawn is dropped
session_after_run(ss, w, drawn) ==
    LET kept == {k \in DOMAIN ss : Len(k) = 1}
        keys == {<<name, key_suffix(ss)>> : name \in drawn}
    IN  [k \in kept \cup keys |-> IF k \in keys THEN w[WidgetField(k[1])] ELSE ss[k]]

\* the dict of lines 41-200 for the widget values w
sidebar_selection(w, athletes, medals, events, show_sport) ==
    [create_sidebar_filters(w, athletes, medals) EXCEPT
        !.sports = IF sport_selector_shown(medals, events, show_sport)
                   THEN multiselect_value(w.sports_raw) ELSE {"All"}]

\* what a user may set the widgets to
SessionWidgets ==
    [continents_raw : {{"All"}, {}, {"All", "Europe"}},
     countries_raw  : {{"All"}, {"France"}},
     sports_raw     : {{"All"}, {}, {"All", "Rowing"}, {"Rowing", "Judo"}},
     show_gold      : {TRUE},
     show_silver    : BOOLEAN,
     show_bronze    : {TRUE},
     gender         : {"All", "Male"},
     age_range      : {<<19, 31>>, <<20, 30>>}]


\* lines 35-36: the counter starts at 0 in a new session
with_reset_counter(ss) ==
    IF <<"filter_reset_counter">> \notin DOMAIN ss
    THEN [k \in DOMAIN ss \cup {<<"filter_reset_counter">>} |->
             IF k = <<"filter_reset_counter">> THEN 0 ELSE ss[k]]
    ELSE ss

InitSession ==
    /\ pc = "script"
    /\ session_state = <<>>
    /\ df \in OverviewAthletes
    /\ medallists_df \in {EmptyFrame, ScenarioTable}
    /\ called \in {<<"create_sidebar_filters", events, show_sport>> :
                      events \in {EmptyFrame, OverviewEvents}, show_sport \in BOOLEAN}
    /\ filters = DefaultFilters /\ raw_widgets = NoWidgets
    /\ cache = <<>>
    /\ files = <<>> /\ messages = <<>> /\ all_results = <<>> /\ kpi_data = <<>>
    /\ returned = EmptyFrame
    /\ filtered_df = EmptyFrame /\ refiltered_df = EmptyFrame
    /\ raw_df = EmptyFrame /\ normalized_df = EmptyFrame /\ renormalized_df = EmptyFrame
    /\ medals_total_df = EmptyFrame
    /\ filtered_medallists = EmptyFrame /\ medal_counts = <<>>
    /\ filtered_medals_total = EmptyFrame
    /\ medals_df = EmptyFrame /\ medals_by_country = EmptyFrame

\* lines 34-210 of a run in which the reset button was not pressed: the
\* selection is built from the widgets and returned
SidebarRun ==
    /\ pc \in {"script", "rerun"}
    /\ LET ss == with_reset_counter(session_state)
           w == widget_values(ss, df)
       IN  /\ ~widget(ss, <<"reset_btn">>, FALSE)
           /\ raw_widgets' = w
           /\ filters' = sidebar_selection(w, df, medallists_df, called[2], called[3])
           /\ session_state' =
                 session_after_run(ss, w, drawn_widgets(df, medallists_df, called[2], called[3]))
    /\ pc' = "idle"
    /\ UNCHANGED <<df, filtered_df, refiltered_df, raw_df, normalized_df, renormalized_df,
                   medals_total_df, medallists_df, filtered_medallists, medal_counts,
                   filtered_medals_total, medals_df, medals_by_country, called, returned,
                   files, messages, all_results, kpi_data, cache>>

\* lines 34-208 of the run that follows a press of the reset button: the
\* counter goes up by one and st.rerun() starts the script again, so this
\* run returns no selection
SidebarReset ==
    /\ pc = "script"
    /\ LET ss == with_reset_counter(session_state)
           w == widget_values(ss, df)
           after == session_after_run(ss, w,
                        drawn_widgets(df, medallists_df, called[2], called[3]))
       IN  /\ widget(ss, <<"reset_btn">>, FALSE)
           /\ raw_widgets' = w
           /\ session_state' =
                 [k \in DOMAIN after |->
                     CASE k = <<"filter_reset_counter">> -> after[k] + 1
                       [] k = <<"reset_btn">>            -> FALSE
                       [] OTHER                          -> after[k]]
    /\ pc' = "rerun"
    /\ UNCHANGED <<df, filters, filtered_df, refiltered_df, raw_df, normalized_df,
                   renormalized_df, medals_total_df, medallists_df, filtered_medallists,
                   medal_counts, filtered_medals_total, medals_df, medals_by_country,
                   called, returned, files, messages, all_results, kpi_data, cache>>

\* the user moves widgets of the sidebar; Streamlit stores their values under
\* their keys and runs the script again
UserSelects ==
    /\ pc = "idle"
    /\ \E w \in SessionWidgets :
          /\ w.countries_raw \subseteq
                {"All"} \cup country_options(medallists_df, multiselect_value(w.continents_raw))
          /\ session_state' =
                session_after_run(session_state, w,
                                  drawn_widgets(df, medallists_df, called[2], called[3]))
    /\ pc' = "script"
    /\ UNCHANGED <<df, filters, filtered_df, refiltered_df, raw_df, normalized_df,
                   renormalized_df, medals_total_df, medallists_df, filtered_medallists,
                   medal_counts, filtered_medals_total, medals_df, medals_by_country,
                   raw_widgets, called, returned, files, messages, all_results,
                   kpi_data, cache>>

\* the user presses "Reset All Filters"
ClickReset ==
    /\ pc = "idle"
    /\ session_state[<<"filter_reset_counter">>] < MaxResets
    /\ session_state' =
          [k \in DOMAIN session_state \cup {<<"reset_btn">>} |->
              IF k = <<"reset_btn">> THEN TRUE ELSE session_state[k]]
    /\ pc' = "script"
    /\ UNCHANGED <<df, filters, filtered_df, refiltered_df, raw_df, normalized_df,
                   renormalized_df, medals_total_df, medallists_df, filtered_medallists,
                   medal_counts, filtered_medals_total, medals_df, medals_by_country,
                   raw_widgets, called, returned, files, messages, all_results,
                   kpi_data, cache>>

NextSession == SidebarRun \/ SidebarReset \/ UserSelects \/ ClickReset

SpecSession == InitSession /\ [][NextSession]_vars

\* the selection of untouched widgets
UnconstrainedDefault ==
    [continents |-> {"All"}, countries |-> {"All"}, sports |-> {"All"},
     medal_types |-> {"Gold", "Silver", "Bronze"}, gender |-> "All",
     age_range |-> age_slider_default(df)]

\* the reset counter, once the session holds it
ResetCounter(ss) ==
    IF <<"filter_reset_counter">> \in DOMAIN ss THEN ss[<<"filter_reset_counter">>] ELSE 0

\* C24: the render cycle that follows a reset builds the unconstrained default
\* selection (continents, countries and sports ['All'], all three medal types,
\* gender 'All', the age slider at its full range) whatever was selected
\* before; the reset counter goes up by exactly one in the run that handles
\* the reset and changes in no other step.
C24_ResetRestoresDefault ==
    [][/\ pc = "rerun" => filters' = UnconstrainedDefault
       /\ (pc = "script" /\ widget(session_state, <<"reset_btn">>, FALSE)) =>
             ResetCounter(session_state') = ResetCounter(session_state) + 1
       /\ ~(pc = "script" /\ widget(session_state, <<"reset_btn">>, FALSE)) =>
             ResetCounter(session_state') = ResetCounter(session_state)]_vars

\* a narrowed selection was in force when the reset was handled
C24_Witness ==
    /\ pc = "rerun"
    /\ filters.continents = {"Europe"} /\ filters.gender = "Male"
    /\ filters.sports = {"Rowing", "Judo"} /\ filters.age_range = <<20, 30>>
    /\ filters.medal_types = {"Gold", "Bronze"}
    /\ ResetCounter(session_state) = 2


-----------------------------------------------------------------------------
(* Claims about narrowing a selection *)

\* narrow is at most as wide as wide in every dimension
Narrower(narrow, wide) ==
    /\ \A dim \in {"continents", "countries", "sports", "medal_types"} :
          narrow[dim] \subseteq wide[dim]
    /\ narrow.gender = wide.gender \/ wide.gender = "All"
    /\ \/ wide.age_range = NoAgeRange
       \/ /\ narrow.age_range # NoAgeRange
          /\ wide.age_range[1] <= narrow.age_range[1]
          /\ narrow.age_range[2] <= wide.age_range[2]

\* C26: apply_filters is monotone in the selection: every row kept under a
\* selection narrower in every dimension is kept under the wider selection.
C26_Monotone ==
    (pc = "applied") =>
        \A narrow \in AllSelections :
            Narrower(narrow, filters) =>
                RowSet(apply_filters(df, narrow)) \subseteq RowSet(filtered_df)


-----------------------------------------------------------------------------
(* Claims about what the recompute path keeps *)

\* C27: on the recompute path no medal is lost: every country with a medallist
\* row surviving apply_filters has a tally row with Total >= 1, and the Totals
\* of the tally add up to the number of distinct (country_code, country,
\* medal_type, discipline, event) groups among the surviving rows.
C27_NoMedalLost ==
    (Recomputed /\ filtered_medals_total # Raised) =>
        /\ \A i \in 1..Len(filtered_medallists.rows) :
              \E k \in 1..Len(filtered_medals_total.rows) :
                 /\ Cell(filtered_medals_total, filtered_medals_total.rows[k], "country")
                       = Cell(filtered_medallists, filtered_medallists.rows[i], "country")
                 /\ Cell(filtered_medals_total, filtered_medals_total.rows[k], "Total") >= 1
        /\ SumSeq([k \in 1..Len(filtered_medals_total.rows) |->
                      Cell(filtered_medals_total, filtered_medals_total.rows[k], "Total")])
              = Cardinality({GroupKey(filtered_medallists, filtered_medallists.rows[i]) :
                                i \in 1..Len(filtered_medallists.rows)})


-----------------------------------------------------------------------------
(* Claims about filters whose column the table lacks *)

\* the table has no column the filter of the dimension could be applied to
Unresolved(dim, d) ==
    CASE dim = "continents"  ->
            /\ ~HasCol(d, "continent")
            /\ FirstCol(d, <<"country_code", "code", "noc", "NOC", "Country Code">>) = NoCol
      [] dim = "countries"   -> get_country_column(d) = NoCol
      [] dim = "sports"      -> get_sport_column(d) = NoCol
      [] dim = "medal_types" -> ~IsAggregated(d) /\ get_medal_column(d) = NoCol
      [] dim = "gender"      -> get_gender_column(d) = NoCol
      [] dim = "age_range"   -> ~HasCol(d, "age")

FilterDims == {"continents", "countries", "sports", "medal_types", "gender", "age_range"}

\* C28: a filter whose column cannot be resolved (no country, sport, medal,
\* gender or age column, no country-code column to derive the continent from)
\* is skipped and the rows are kept: the result is the one of the selection
\* without that filter, and a table on which no active filter can be resolved
\* (an active country filter on a table without a country column) is returned
\* as it came.
C28_UnresolvedSkipped ==
    (pc = "applied") =>
        /\ \A dim \in FilterDims :
              Unresolved(dim, df) =>
                  filtered_df = apply_filters(df, [filters EXCEPT ![dim] = DefaultFilters[dim]])
        /\ (/\ Unresolved("medal_types", df)
            /\ \A dim \in FilterDims :
                  Unresolved(dim, df) \/ filters[dim] = DefaultFilters[dim])
              => filtered_df = df

\* a country and a continent are selected and the table has sports and events only
C28_Witness ==
    /\ pc = "applied"
    /\ df.cols = EventCols /\ Len(df.rows) = 2
    /\ filters.countries = {"France"} /\ filters.continents = {"Europe"}
    /\ filtered_df = df


-----------------------------------------------------------------------------
(* Claims about rows without an age *)

NoMissingAge(d) == \A i \in 1..Len(d.rows) : Cell(d, d.rows[i], "age") # NaNNum

\* C29: when an age range is set and the table has an age column, no row of
\* the result of apply_filters has an undefined age; this holds for the range
\* the sidebar sets by default (the least to the greatest age of the table)
\* as for a narrower one.
C29_MissingAgeDropped ==
    (pc = "applied" /\ HasCol(df, "age")) =>
        /\ filters.age_range # NoAgeRange => NoMissingAge(filtered_df)
        /\ slider_shown(df) =>
              NoMissingAge(apply_filters(df, [filters EXCEPT
                                                 !.age_range = age_slider_default(df)]))

\* a row without an age beside a row of age 20: only the second is kept
C29_Witness ==
    /\ pc = "applied" /\ filters.age_range = <<20, 30>>
    /\ HasCol(df, "age") /\ Len(df.rows) = 2
    /\ Cell(df, df.rows[1], "age") = NaNNum
    /\ Cell(df, df.rows[2], "age") = 20
    /\ filtered_df.rows = <<df.rows[2]>>
    /\ age_slider_default(df) = <<20, 20>>
    /\ apply_filters(df, [filters EXCEPT !.age_range = <<20, 20>>]) = filtered_df


-----------------------------------------------------------------------------
(* Claims about the column names normalize_medal_columns returns *)

\* C30: the table normalize_medal_columns returns has at most one column named
\* Gold, one named Silver, one named Bronze and one named Total, whatever the
\* columns of the input, a table with both 'Gold Medal' and 'Gold' included.
C30_CanonicalNamesUnique ==
    (pc = "normalized" /\ normalized_df # Raised) =>
        \A c \in {"Gold", "Silver", "Bronze", "Total"} : LabelCount(normalized_df, c) <= 1

====
